---- MODULE Spec2Model ----
(***************************************************************************)
(* A model of sdb, a file-resident record store: the lock protocol of      *)
(* lib/fs.ts (acquireLock / releaseLock / withLock), the record codec and  *)
(* the atomic rewrite of the two logs (loadRecordsFromFile,                *)
(* writeRecordsToFile, appendDeletedRecord), and the mutating commands     *)
(* add, update, delete and gc that run on top of them.                     *)
(*                                                                         *)
(* Files hold sequences of one-character strings.  Time is counted in      *)
(* units of LOCK_RETRY_MS.                                                 *)
(***************************************************************************)
EXTENDS Naturals, Integers, Sequences, FiniteSets, TLC

\* ------------------------------------------------------------------ bounds
MaxTime == 5          \* the clock runs from 0 to MaxTime
MaxRecs == 2          \* longest record list given to writeFull
MaxIds == 3           \* ids the id generator can hand out
MaxOps == 3           \* commands run one after another on one database
MaxNum == 2           \* largest number in a record field or a filter

\* ------------------------------------------------------- program constants
\* the three environment knobs of lib/fs.ts, in units of LOCK_RETRY_MS
LOCK_RETRY_MS == 1
LOCK_TIMEOUT_MS == 2
LOCK_MAX_WAIT_MS == LOCK_TIMEOUT_MS

Procs == {"p1", "p2"}

\* ------------------------------------------------------------------- paths
DatabasePaths ==
  [ dataFile        |-> "data.jsonl",
    deletedFile     |-> "data.deleted.jsonl",
    schemaFile      |-> "schema.json",
    tempFile        |-> "data.jsonl.tmp",
    deletedTempFile |-> "data.deleted.jsonl.tmp" ]

Paths == { DatabasePaths.dataFile, DatabasePaths.deletedFile,
           DatabasePaths.tempFile, DatabasePaths.deletedTempFile }

NoFile == [exists |-> FALSE, content |-> <<>>]
File(c) == [exists |-> TRUE, content |-> c]

\* ----------------------------------------------------------------- records
NoTs == -1                       \* an absent _deleted
BadTs == -2                      \* a _deleted that Date.parse turns into NaN
BadTsChar == "x"
Digits == <<"0", "1", "2", "3", "4", "5", "6", "7", "8", "9">>
DigitChars == {Digits[i] : i \in 1..Len(Digits)}
IdChars == {"A", "B", "C", "D"}
NL == "\n"
BS == "\\"
QT == "\""
Whitespace == {" ", NL}

\* a record: the reserved fields _id, _created, _updated, _deleted and one
\* user field, title
SdbRecord(id, created, updated, deleted, title) ==
  [id |-> id, created |-> created, updated |-> updated, deleted |-> deleted,
   title |-> title]


\* --------------------------------------------------- JSON.stringify / parse
\* a stringify that writes string values as they are
Escape_Raw(s) == s

\* the escapes JSON.stringify applies inside a string value
RECURSIVE Escape(_)
Escape(s) ==
  IF s = <<>> THEN <<>>
  ELSE LET c == Head(s) IN
       (IF c = NL THEN <<BS, "n">>
        ELSE IF c = BS THEN <<BS, BS>>
        ELSE IF c = QT THEN <<BS, QT>>
        ELSE <<c>>) \o Escape(Tail(s))

TsToStr(t) == Digits[t + 1]
StrToTs(c) == CHOOSE t \in 0..(Len(Digits) - 1) : Digits[t + 1] = c

Stringify(r) ==
  <<"{", "i", r.id, "c", TsToStr(r.created), "u", TsToStr(r.updated)>>
  \o (IF r.deleted = NoTs THEN <<>>
      ELSE IF r.deleted = BadTs THEN <<"d", BadTsChar>>
      ELSE <<"d", TsToStr(r.deleted)>>)
  \o <<"t", QT>> \o Escape(r.title) \o <<QT, "}">>

ParseError == [ok |-> FALSE, rec |-> SdbRecord("", 0, 0, NoTs, <<>>)]

\* scan a JSON string body from position i up to its closing quote
RECURSIVE ScanString(_, _, _)
ScanString(s, i, acc) ==
  IF i > Len(s) THEN [ok |-> FALSE, val |-> <<>>, next |-> i]
  ELSE IF s[i] = QT THEN [ok |-> TRUE, val |-> acc, next |-> i + 1]
  ELSE IF s[i] = BS THEN
    IF i + 1 > Len(s) THEN [ok |-> FALSE, val |-> <<>>, next |-> i]
    ELSE IF s[i + 1] = "n" THEN ScanString(s, i + 2, Append(acc, NL))
    ELSE IF s[i + 1] = BS THEN ScanString(s, i + 2, Append(acc, BS))
    ELSE IF s[i + 1] = QT THEN ScanString(s, i + 2, Append(acc, QT))
    ELSE [ok |-> FALSE, val |-> <<>>, next |-> i]
  ELSE IF s[i] = NL THEN [ok |-> FALSE, val |-> <<>>, next |-> i]
  ELSE ScanString(s, i + 1, Append(acc, s[i]))

JsonParse(s) ==
  LET n == Len(s)
      hasDel == n >= 9 /\ s[8] = "d"
      p == IF hasDel THEN 10 ELSE 8
  IN
  IF n < 11 THEN ParseError
  ELSE IF ~ ( /\ s[1] = "{" /\ s[2] = "i" /\ s[3] \in IdChars
              /\ s[4] = "c" /\ s[5] \in DigitChars
              /\ s[6] = "u" /\ s[7] \in DigitChars ) THEN ParseError
  ELSE IF hasDel /\ s[9] \notin DigitChars \cup {BadTsChar} THEN ParseError
  ELSE IF n < p + 3 THEN ParseError
  ELSE IF ~ (s[p] = "t" /\ s[p + 1] = QT) THEN ParseError
  ELSE LET str == ScanString(s, p + 2, <<>>) IN
       IF ~ str.ok THEN ParseError
       ELSE IF ~ (str.next = n /\ s[n] = "}") THEN ParseError
       ELSE [ok |-> TRUE,
             rec |-> SdbRecord(s[3], StrToTs(s[5]), StrToTs(s[7]),
                               IF ~ hasDel THEN NoTs
                               ELSE IF s[9] = BadTsChar THEN BadTs
                               ELSE StrToTs(s[9]),
                               str.val)]

\* ------------------------------------------------------------ string tools
RECURSIVE Join(_, _)
Join(lines, sep) ==
  IF lines = <<>> THEN <<>>
  ELSE IF Len(lines) = 1 THEN lines[1]
  ELSE lines[1] \o sep \o Join(Tail(lines), sep)

\* String.prototype.split('\n')
RECURSIVE Split(_)
Split(s) ==
  IF \A i \in 1..Len(s) : s[i] # NL THEN <<s>>
  ELSE LET k == CHOOSE i \in 1..Len(s) :
                  s[i] = NL /\ \A j \in 1..(i - 1) : s[j] # NL
       IN <<SubSeq(s, 1, k - 1)>> \o Split(SubSeq(s, k + 1, Len(s)))

\* !s.trim()
IsBlank(s) == \A i \in 1..Len(s) : s[i] \in Whitespace

EndsWith(s, c) == Len(s) > 0 /\ s[Len(s)] = c

RECURSIVE MapStringify(_)
MapStringify(records) ==
  IF records = <<>> THEN <<>>
  ELSE <<Stringify(Head(records))>> \o MapStringify(Tail(records))

\* the content writeRecordsToFile builds
Serialize(records) ==
  Join(MapStringify(records), <<NL>>)
  \o (IF Len(records) > 0 THEN <<NL>> ELSE <<>>)

\* ------------------------------------------------------ loadRecordsFromFile
LoadOk(records) == [ok |-> TRUE, records |-> records, line |-> 0]
LoadFailed(line) == [ok |-> FALSE, records |-> <<>>, line |-> line]

RECURSIVE ParseLines(_, _, _, _, _)
ParseLines(lines, index, endsWithNewline, allowPartialLastLine, records) ==
  IF index > Len(lines) THEN LoadOk(records)
  ELSE
    LET line == lines[index] IN
    IF IsBlank(line)
    THEN ParseLines(lines, index + 1, endsWithNewline,
                    allowPartialLastLine, records)
    ELSE
      LET parsed == JsonParse(line) IN
      IF parsed.ok
      THEN ParseLines(lines, index + 1, endsWithNewline,
                      allowPartialLastLine, Append(records, parsed.rec))
      ELSE IF allowPartialLastLine /\ index = Len(lines) /\ ~ endsWithNewline
      THEN ParseLines(lines, index + 1, endsWithNewline,
                      allowPartialLastLine, records)
      ELSE LoadFailed(index)

\* the part of loadRecordsFromFile after readFileSync returned content
ParseContent(content, allowPartialLastLine) ==
  IF IsBlank(content) THEN LoadOk(<<>>)
  ELSE ParseLines(Split(content), 1, EndsWith(content, NL),
                  allowPartialLastLine, <<>>)

\* a loader that tolerates a partial last line in either log
AllowPartialLastLine_Always(path) == TRUE

\* loadRecords passes false, loadDeletedRecords true
AllowPartialLastLine(path) == path = DatabasePaths.deletedFile

\* the whole of loadRecordsFromFile on one file value
LoadRecordsFromFile(file, allowPartialLastLine) ==
  IF ~ file.exists THEN LoadOk(<<>>)
  ELSE ParseContent(file.content, allowPartialLastLine)

\* ------------------------------------------------------------------- state
VARIABLES
  clock,           \* Date.now()
  lockFile,        \* .sdb.lock
  files,           \* the two logs and their temp files
  pc,              \* where each process is
  cmd,             \* the operation a process runs, its arguments, its result
  plan,            \* the file operations a process still has to do
  currentRecords,  \* what a process loaded from the active log
  deletedRecords,  \* what a process loaded from the deleted log
  outcome,         \* how the operation of a process ended
  start,           \* acquireLock: start
  waitedMs,        \* acquireLock: waitedMs
  wake,            \* acquireLock: end of the current Atomics.wait
  lockTs,          \* acquireLock: lock.timestamp
  reclaimed,       \* history: removed a stale lock and met no contender since
  nextId,          \* ids handed out so far
  opsRun,          \* commands started so far
  origRecords,     \* history: the list both logs held at the start
  lastWritten,     \* history: the list last written to each log
  expected,        \* history: lastWritten of the log at a process's read
  before,          \* history: the target file when writeFull was called
  snapshot         \* history: the records of both logs when a command began

vars == <<clock, lockFile, files, pc, cmd, plan, currentRecords,
          deletedRecords, outcome, start, waitedMs, wake, lockTs, reclaimed,
          nextId, opsRun, origRecords, lastWritten, expected, before, snapshot>>

histVars == <<origRecords, lastWritten, expected, before, snapshot>>

\* the records of the two logs
Logs(active, deleted) == [active |-> active, deleted |-> deleted]

NoLock == [exists |-> FALSE, creator |-> "", kind |-> "", pid |-> "",
           timestamp |-> NoTs]

\* Field values and filter literals: a JavaScript value with its type.
Value(type, num, str, items) ==
  [type |-> type, num |-> num, str |-> str, items |-> items]
Undefined == Value("undefined", 0, <<>>, <<>>)
Null == Value("null", 0, <<>>, <<>>)
Num(n) == Value("number", n, <<>>, <<>>)
Str(s) == Value("string", 0, s, <<>>)
Bool(b) == Value("boolean", IF b THEN 1 ELSE 0, <<>>, <<>>)
Arr(items) == Value("array", 0, <<>>, items)

\* a JSON schema as the commands read it: type, the default of each of its
\* properties (Undefined where it has none) and the required list
Schema(type, properties, required) ==
  [type |-> type, properties |-> properties, required |-> required]

\* an object without keys
EmptyObject == [key \in {} |-> Undefined]

\* the schema of a database whose schema is left out: it accepts every object
AnySchema == Schema("object", EmptyObject, <<>>)

\* GcStats
Stats(total, removed, skippedInvalid) ==
  [total |-> total, removed |-> removed, remaining |-> total - removed,
   skippedInvalid |-> skippedInvalid]

NoCmd == [op |-> "none", path |-> "", ids |-> <<>>, title |-> <<>>,
          hard |-> FALSE, dryRun |-> FALSE, cutoff |-> NoTs,
          records |-> <<>>, now |-> 0, stats |-> Stats(0, 0, 0),
          filter |-> <<>>, sort |-> "", order |-> "", out |-> <<>>,
          includeDeleted |-> FALSE, limit |-> Undefined,
          within |-> [created |-> NoTs, updated |-> NoTs, deleted |-> NoTs],
          args |-> <<>>, schema |-> AnySchema, validated |-> <<>>]

\* a gcCommand that runs without withLock
Locked_NotGc(op) == op \in {"fn", "add", "update", "delete"}

\* the operations that run their fn inside withLock
Locked(op) == op \in {"fn", "add", "update", "delete", "gc"}

\* plan entries
ExistsOp(path) == [op |-> "exists", path |-> path, temp |-> "", records |-> <<>>]
ReadOp(path) == [op |-> "read", path |-> path, temp |-> "", records |-> <<>>]
OpenOp(path, temp, records) ==
  [op |-> "open", path |-> path, temp |-> temp, records |-> records]
WriteOp(path, temp, records) ==
  [op |-> "write", path |-> path, temp |-> temp, records |-> records]
RenameOp(path, temp, records) ==
  [op |-> "rename", path |-> path, temp |-> temp, records |-> records]
AppendOp(record) ==
  [op |-> "append", path |-> DatabasePaths.deletedFile, temp |-> "",
   records |-> <<record>>]

TempOf(path) ==
  IF path = DatabasePaths.dataFile THEN DatabasePaths.tempFile
  ELSE DatabasePaths.deletedTempFile

LoadOps(path) == <<ExistsOp(path), ReadOp(path)>>
WriteRecordsToFileOps(path, temp, records) ==
  <<OpenOp(path, temp, records), WriteOp(path, temp, records),
    RenameOp(path, temp, records)>>

\* withLock: where control goes when fn returned
AfterFn(p) == IF Locked(cmd[p].op) THEN "rel_exists" ELSE "done"

\* a withLock that skips releaseLock when fn throws
AfterThrow_NoFinally(p) == "done"

\* withLock: where control goes when fn threw or its promise rejected
AfterThrow(p) == IF Locked(cmd[p].op) THEN "rel_exists" ELSE "done"

\* record lists writeFull is given
StoreRecords ==
  { SdbRecord("A", 0, 0, NoTs, <<NL>>),
    SdbRecord("B", 0, 1, 1, <<BS, "n">>) }

RecLists == UNION { [1..n -> StoreRecords] : n \in 0..MaxRecs }


InitLocals ==
  /\ pc = [p \in Procs |-> "idle"]
  /\ cmd = [p \in Procs |-> NoCmd]
  /\ plan = [p \in Procs |-> <<>>]
  /\ currentRecords = [p \in Procs |-> <<>>]
  /\ deletedRecords = [p \in Procs |-> <<>>]
  /\ outcome = [p \in Procs |-> "none"]
  /\ start = [p \in Procs |-> 0]
  /\ waitedMs = [p \in Procs |-> 0]
  /\ wake = [p \in Procs |-> 0]
  /\ lockTs = [p \in Procs |-> NoTs]
  /\ reclaimed = [p \in Procs |-> FALSE]
  /\ expected = [p \in Procs |-> <<>>]
  /\ before = [p \in Procs |-> NoFile]
  /\ snapshot = [p \in Procs |-> Logs(<<>>, <<>>)]

\* ------------------------------------------------ record store, step by step

\* writeRecords / writeDeletedRecords called on its own
WriteFull(p, path, records) ==
  /\ pc[p] = "idle"
  /\ opsRun = 0
  /\ \A q \in Procs : cmd[q].op # "writeFull"
  /\ opsRun' = opsRun + 1
  /\ pc' = [pc EXCEPT ![p] = "writing"]
  /\ cmd' = [cmd EXCEPT ![p] = [NoCmd EXCEPT !.op = "writeFull",
                                            !.path = path,
                                            !.records = records]]
  /\ plan' = [plan EXCEPT ![p] = WriteRecordsToFileOps(path, TempOf(path), records)]
  /\ before' = [before EXCEPT ![p] = files[path]]
  /\ UNCHANGED <<clock, lockFile, lockTs, reclaimed, files, currentRecords, deletedRecords,
                 outcome, start, waitedMs, wake, nextId, origRecords,
                 lastWritten, expected, snapshot>>

\* loadRecords / loadDeletedRecords called on its own
Load(p, path) ==
  /\ pc[p] = "idle"
  /\ pc' = [pc EXCEPT ![p] = "loading"]
  /\ cmd' = [cmd EXCEPT ![p] = [NoCmd EXCEPT !.op = "load", !.path = path]]
  /\ plan' = [plan EXCEPT ![p] = LoadOps(path)]
  /\ UNCHANGED <<clock, lockFile, lockTs, reclaimed, files, currentRecords, deletedRecords,
                 outcome, start, waitedMs, wake, nextId, opsRun, histVars>>

\* fn throws: the rest of the plan is dropped
Throw(p, code) ==
  /\ pc' = [pc EXCEPT ![p] = AfterThrow(p)]
  /\ plan' = [plan EXCEPT ![p] = <<>>]
  /\ outcome' = [outcome EXCEPT ![p] = code]

\* loadRecordsFromFile: existsSync(filePath)
ExistsSync(p) ==
  /\ pc[p] = "loading"
  /\ plan[p] # <<>>
  /\ Head(plan[p]).op = "exists"
  /\ LET path == Head(plan[p]).path IN
     IF files[path].exists
     THEN /\ plan' = [plan EXCEPT ![p] = Tail(plan[p])]
          /\ UNCHANGED <<currentRecords, deletedRecords, expected>>
     ELSE /\ plan' = [plan EXCEPT ![p] = Tail(Tail(plan[p]))]
          /\ expected' = [expected EXCEPT ![p] = lastWritten[path]]
          /\ IF path = DatabasePaths.dataFile
             THEN /\ currentRecords' = [currentRecords EXCEPT ![p] = <<>>]
                  /\ UNCHANGED deletedRecords
             ELSE /\ deletedRecords' = [deletedRecords EXCEPT ![p] = <<>>]
                  /\ UNCHANGED currentRecords
  /\ UNCHANGED <<clock, lockFile, lockTs, reclaimed, files, pc, cmd, outcome, start, waitedMs,
                 wake, nextId, opsRun, origRecords, lastWritten, before, snapshot>>

\* loadRecordsFromFile: readFileSync(filePath) and the parse of its lines
ReadFileSync(p) ==
  /\ pc[p] = "loading"
  /\ plan[p] # <<>>
  /\ Head(plan[p]).op = "read"
  /\ LET path == Head(plan[p]).path
         res == LoadRecordsFromFile(files[path], AllowPartialLastLine(path))
     IN
     /\ expected' = [expected EXCEPT ![p] = lastWritten[path]]
     /\ IF res.ok
        THEN /\ plan' = [plan EXCEPT ![p] = Tail(plan[p])]
             /\ IF path = DatabasePaths.dataFile
                THEN /\ currentRecords' = [currentRecords EXCEPT ![p] = res.records]
                     /\ UNCHANGED deletedRecords
                ELSE /\ deletedRecords' = [deletedRecords EXCEPT ![p] = res.records]
                     /\ UNCHANGED currentRecords
             /\ UNCHANGED <<pc, outcome>>
        ELSE /\ Throw(p, "OPERATION_FAILED")
             /\ UNCHANGED <<currentRecords, deletedRecords>>
  /\ UNCHANGED <<clock, lockFile, lockTs, reclaimed, files, cmd, start, waitedMs, wake, nextId,
                 opsRun, origRecords, lastWritten, before, snapshot>>

\* loadRecords returns to a caller that only wanted the list
LoadReturn(p) ==
  /\ pc[p] = "loading"
  /\ plan[p] = <<>>
  /\ cmd[p].op = "load"
  /\ pc' = [pc EXCEPT ![p] = "done"]
  /\ outcome' = [outcome EXCEPT ![p] = "ok"]
  /\ UNCHANGED <<clock, lockFile, lockTs, reclaimed, files, cmd, plan, currentRecords,
                 deletedRecords, start, waitedMs, wake, nextId, opsRun,
                 histVars>>

\* a writeRecordsToFile that writes the log in place
WriteTarget_InPlace(op) == op.path

\* the file writeRecordsToFile hands to writeFileSync
WriteTarget(op) == op.temp

\* a catch block that removes the log instead of the temp file
CleanupTarget_Log(op) == op.path

\* the file the catch block of writeRecordsToFile removes
CleanupTarget(op) == op.temp

\* writeRecordsToFile: writeFileSync(tempFile, content) opens the file, which
\* truncates it
WriteFileSyncOpen(p) ==
  /\ pc[p] = "writing"
  /\ plan[p] # <<>>
  /\ Head(plan[p]).op = "open"
  /\ files' = [files EXCEPT ![WriteTarget(Head(plan[p]))] = File(<<>>)]
  /\ plan' = [plan EXCEPT ![p] = Tail(plan[p])]
  /\ UNCHANGED <<clock, lockFile, lockTs, reclaimed, pc, cmd, currentRecords, deletedRecords,
                 outcome, start, waitedMs, wake, nextId, opsRun, histVars>>

\* writeRecordsToFile: writeFileSync(tempFile, content) writes the rest of
\* content, or only its next character; it returns when all is written
WriteFileSync(p, rest) ==
  /\ pc[p] = "writing"
  /\ plan[p] # <<>>
  /\ Head(plan[p]).op = "write"
  /\ LET op == Head(plan[p])
         content == Serialize(op.records)
         written == Len(files[WriteTarget(op)].content)
     IN
     IF written >= Len(content)
     THEN /\ plan' = [plan EXCEPT ![p] = Tail(plan[p])]
          /\ UNCHANGED files
     ELSE LET n == IF rest THEN Len(content) ELSE written + 1 IN
          /\ files' = [files EXCEPT ![WriteTarget(op)] =
                         File(SubSeq(content, 1, n))]
          /\ plan' = [plan EXCEPT ![p] =
                        IF n = Len(content) THEN Tail(plan[p]) ELSE plan[p]]
  /\ UNCHANGED <<clock, lockFile, lockTs, reclaimed, pc, cmd, currentRecords, deletedRecords,
                 outcome, start, waitedMs, wake, nextId, opsRun, histVars>>

\* writeRecordsToFile: renameSync(tempFile, filePath), and the catch block
\* when the temp file is gone
RenameSync(p) ==
  /\ pc[p] = "writing"
  /\ plan[p] # <<>>
  /\ Head(plan[p]).op = "rename"
  /\ LET op == Head(plan[p]) IN
     IF files[op.temp].exists
     THEN /\ files' = [files EXCEPT ![op.path] = files[op.temp],
                                    ![op.temp] = NoFile]
          /\ plan' = [plan EXCEPT ![p] = Tail(plan[p])]
          /\ lastWritten' = [lastWritten EXCEPT ![op.path] = op.records]
          /\ UNCHANGED <<pc, outcome>>
     ELSE /\ Throw(p, "OPERATION_FAILED")
          /\ UNCHANGED <<files, lastWritten>>
  /\ UNCHANGED origRecords
  /\ UNCHANGED <<clock, lockFile, lockTs, reclaimed, cmd, currentRecords, deletedRecords, start,
                 waitedMs, wake, nextId, opsRun, expected, before, snapshot>>

\* writeRecordsToFile: writeFileSync fails part way; the catch block removes
\* the temp file and raises operation-failed
WriteFileSyncFails(p) ==
  /\ pc[p] = "writing"
  /\ plan[p] # <<>>
  /\ Head(plan[p]).op \in {"open", "write"}
  /\ files' = [files EXCEPT ![CleanupTarget(Head(plan[p]))] = NoFile]
  /\ Throw(p, "OPERATION_FAILED")
  /\ UNCHANGED <<clock, lockFile, lockTs, reclaimed, cmd, currentRecords, deletedRecords, start,
                 waitedMs, wake, nextId, opsRun, histVars>>

\* the process is killed
Kill(p) ==
  /\ pc[p] \in {"loading", "writing"}
  /\ pc' = [pc EXCEPT ![p] = "killed"]
  /\ UNCHANGED <<clock, lockFile, lockTs, reclaimed, files, cmd, plan, currentRecords,
                 deletedRecords, outcome, start, waitedMs, wake, nextId,
                 opsRun, histVars>>

\* the process is killed inside writeRecordsToFile
KillWriter(p) == pc[p] = "writing" /\ Kill(p)

\* fn has done its last write and returns
FnReturn(p) ==
  /\ pc[p] = "writing"
  /\ plan[p] = <<>>
  /\ pc' = [pc EXCEPT ![p] = AfterFn(p)]
  /\ outcome' = [outcome EXCEPT ![p] = "ok"]
  /\ UNCHANGED <<clock, lockFile, lockTs, reclaimed, files, cmd, plan, currentRecords,
                 deletedRecords, start, waitedMs, wake, nextId, opsRun,
                 histVars>>

\* the process exits; the next invocation starts from scratch
Finish(p) ==
  /\ pc[p] \in {"done", "killed"}
  /\ pc' = [pc EXCEPT ![p] = "idle"]
  /\ cmd' = [cmd EXCEPT ![p] = NoCmd]
  /\ plan' = [plan EXCEPT ![p] = <<>>]
  /\ currentRecords' = [currentRecords EXCEPT ![p] = <<>>]
  /\ deletedRecords' = [deletedRecords EXCEPT ![p] = <<>>]
  /\ outcome' = [outcome EXCEPT ![p] = "none"]
  /\ start' = [start EXCEPT ![p] = 0]
  /\ waitedMs' = [waitedMs EXCEPT ![p] = 0]
  /\ wake' = [wake EXCEPT ![p] = 0]
  /\ lockTs' = [lockTs EXCEPT ![p] = NoTs]
  /\ reclaimed' = [reclaimed EXCEPT ![p] = FALSE]
  /\ expected' = [expected EXCEPT ![p] = <<>>]
  /\ before' = [before EXCEPT ![p] = NoFile]
  /\ snapshot' = [snapshot EXCEPT ![p] = Logs(<<>>, <<>>)]
  /\ UNCHANGED <<clock, lockFile, files, nextId, opsRun, origRecords,
                 lastWritten>>

\* ------------------------------------------------------------ lock protocol
storeVars == <<files, plan, currentRecords, deletedRecords, nextId, opsRun,
               origRecords, lastWritten, expected, before, snapshot>>

AcquirePcs == {"acq_top", "acq_read", "acq_unlink", "acq_catch", "acq_sleep",
               "acq_create", "acq_write"}

\* between the return of acquireLock and the call of releaseLock
InsideFn(p) == pc[p] \in {"fn", "loading", "writing"}

Min(a, b) == IF a < b THEN a ELSE b

\* the first position of fn
FnStart(p) == IF cmd[p].op = "fn" THEN "fn" ELSE "loading"

\* withLock(paths, operation, fn) with an fn of no interest: acquireLock
\* begins, start = Date.now()
WithLock(p) ==
  /\ pc[p] = "idle"
  /\ clock + LOCK_MAX_WAIT_MS <= MaxTime
  /\ pc' = [pc EXCEPT ![p] = "acq_top"]
  /\ cmd' = [cmd EXCEPT ![p] = [NoCmd EXCEPT !.op = "fn"]]
  /\ start' = [start EXCEPT ![p] = clock]
  /\ reclaimed' = [q \in Procs |-> FALSE]
  /\ UNCHANGED <<clock, lockFile, waitedMs, wake, lockTs, outcome, storeVars>>

\* acquireLock: waitedMs = Date.now() - start; existsSync(paths.lockFile)
AcqExists(p) ==
  /\ pc[p] = "acq_top"
  /\ waitedMs' = [waitedMs EXCEPT ![p] = clock - start[p]]
  /\ pc' = [pc EXCEPT ![p] = IF lockFile.exists THEN "acq_read"
                             ELSE "acq_create"]
  /\ UNCHANGED <<clock, lockFile, cmd, start, wake, lockTs, reclaimed,
                 outcome, storeVars>>

\* acquireLock: if (waitedMs >= LOCK_MAX_WAIT_MS) throw lockFailed; else
\* Atomics.wait for LOCK_RETRY_MS plus a jitter below LOCK_RETRY_MS
BackoffOrFail(p) ==
  IF waitedMs[p] >= LOCK_MAX_WAIT_MS
  THEN /\ pc' = [pc EXCEPT ![p] = "done"]
       /\ outcome' = [outcome EXCEPT ![p] = "LOCK_FAILED"]
       /\ UNCHANGED wake
  ELSE /\ \E jitter \in 0..(LOCK_RETRY_MS - 1) :
            wake' = [wake EXCEPT ![p] =
                       Min(clock + LOCK_RETRY_MS + jitter, MaxTime)]
       /\ pc' = [pc EXCEPT ![p] = "acq_sleep"]
       /\ UNCHANGED outcome

\* Date.now() - new Date(lock.timestamp).getTime() > LOCK_TIMEOUT_MS; a
\* timestamp that is no date gives NaN, which is greater than nothing
IsStale(lock) ==
  /\ lock.timestamp \notin {NoTs, BadTs}
  /\ clock - lock.timestamp > LOCK_TIMEOUT_MS

\* acquireLock: readFileSync and JSON.parse of the lock file, then the
\* staleness test and the wait
AcqRead(p) ==
  /\ pc[p] = "acq_read"
  /\ IF ~ lockFile.exists \/ lockFile.kind # "json"
     THEN /\ pc' = [pc EXCEPT ![p] = "acq_catch"]
          /\ UNCHANGED <<wake, outcome>>
     ELSE IF IsStale(lockFile)
     THEN /\ pc' = [pc EXCEPT ![p] = "acq_unlink"]
          /\ UNCHANGED <<wake, outcome>>
     ELSE BackoffOrFail(p)
  /\ UNCHANGED <<clock, lockFile, cmd, start, waitedMs, lockTs, reclaimed,
                 storeVars>>

\* an acquireLock that falls into the wait after removing a stale lock
AcqUnlinkStale_Backoff(p) ==
  /\ pc[p] = "acq_unlink"
  /\ IF lockFile.exists
     THEN /\ lockFile' = NoLock
          /\ BackoffOrFail(p)
          /\ reclaimed' = [reclaimed EXCEPT ![p] =
                             /\ lockFile.kind = "json" /\ IsStale(lockFile)
                             /\ \A q \in Procs \ {p} :
                                   pc[q] \notin AcquirePcs]
     ELSE /\ pc' = [pc EXCEPT ![p] = "acq_catch"]
          /\ UNCHANGED <<lockFile, reclaimed, wake, outcome>>
  /\ UNCHANGED <<clock, cmd, start, waitedMs, lockTs, storeVars>>

\* acquireLock: unlinkSync of the lock found stale, then continue.  The file
\* removed is whatever is at the path by now; reclaimed records that it was
\* the stale lock and that no other process is acquiring.
AcqUnlinkStale(p) ==
  /\ pc[p] = "acq_unlink"
  /\ IF lockFile.exists
     THEN /\ lockFile' = NoLock
          /\ pc' = [pc EXCEPT ![p] = "acq_top"]
          /\ reclaimed' = [reclaimed EXCEPT ![p] =
                             /\ lockFile.kind = "json" /\ IsStale(lockFile)
                             /\ \A q \in Procs \ {p} :
                                   pc[q] \notin AcquirePcs]
     ELSE /\ pc' = [pc EXCEPT ![p] = "acq_catch"]
          /\ UNCHANGED <<lockFile, reclaimed>>
  /\ UNCHANGED <<clock, cmd, start, waitedMs, wake, lockTs, outcome,
                 storeVars>>

\* acquireLock: the catch block for a lock file that could not be read:
\* unlinkSync whatever is there, errors ignored, then wait or fail
AcqCatch(p) ==
  /\ pc[p] = "acq_catch"
  /\ lockFile' = NoLock
  /\ BackoffOrFail(p)
  /\ UNCHANGED <<clock, cmd, start, waitedMs, lockTs, reclaimed, storeVars>>

\* acquireLock: Atomics.wait returns
AcqWake(p) ==
  /\ pc[p] = "acq_sleep"
  /\ clock >= wake[p]
  /\ pc' = [pc EXCEPT ![p] = "acq_top"]
  /\ wake' = [wake EXCEPT ![p] = 0]
  /\ UNCHANGED <<clock, lockFile, cmd, start, waitedMs, lockTs, reclaimed,
                 outcome, storeVars>>

\* acquireLock: writeFileSync(lockFile, ..., {flag: 'wx'}) opens the file
\* with an exclusive create; EEXIST leads to the wait
AcqCreate(p) ==
  /\ pc[p] = "acq_create"
  /\ IF lockFile.exists
     THEN /\ BackoffOrFail(p)
          /\ UNCHANGED <<lockFile, lockTs>>
     ELSE /\ lockFile' = [exists |-> TRUE, creator |-> p, kind |-> "empty",
                          pid |-> p, timestamp |-> clock]
          /\ lockTs' = [lockTs EXCEPT ![p] = clock]
          /\ pc' = [pc EXCEPT ![p] = "acq_write"]
          /\ UNCHANGED <<wake, outcome>>
  /\ UNCHANGED <<clock, cmd, start, waitedMs, reclaimed, storeVars>>

\* acquireLock: writeFileSync writes the lock into the file it opened, which
\* may have been unlinked since, and acquireLock returns, its locals gone
AcqWrite(p) ==
  /\ pc[p] = "acq_write"
  /\ lockFile' = IF lockFile.exists /\ lockFile.creator = p
                 THEN [lockFile EXCEPT !.kind = "json"]
                 ELSE lockFile
  /\ pc' = [pc EXCEPT ![p] = FnStart(p)]
  /\ start' = [start EXCEPT ![p] = 0]
  /\ waitedMs' = [waitedMs EXCEPT ![p] = 0]
  /\ UNCHANGED <<clock, cmd, wake, lockTs, reclaimed, outcome, storeVars>>

\* withLock: await fn(), for an fn of no interest that returns, throws a
\* structured error or rejects
Fn(p, result) ==
  /\ pc[p] = "fn"
  /\ pc' = [pc EXCEPT ![p] = IF result = "ok" THEN AfterFn(p)
                             ELSE AfterThrow(p)]
  /\ outcome' = [outcome EXCEPT ![p] = result]
  /\ UNCHANGED <<clock, lockFile, cmd, start, waitedMs, wake, lockTs,
                 reclaimed, storeVars>>

\* releaseLock: existsSync(paths.lockFile)
RelExists(p) ==
  /\ pc[p] = "rel_exists"
  /\ pc' = [pc EXCEPT ![p] = IF lockFile.exists THEN "rel_unlink" ELSE "done"]
  /\ UNCHANGED <<clock, lockFile, cmd, start, waitedMs, wake, lockTs,
                 reclaimed, outcome, storeVars>>

\* releaseLock: unlinkSync(paths.lockFile), errors ignored
RelUnlink(p) ==
  /\ pc[p] = "rel_unlink"
  /\ lockFile' = NoLock
  /\ pc' = [pc EXCEPT ![p] = "done"]
  /\ UNCHANGED <<clock, cmd, start, waitedMs, wake, lockTs, reclaimed,
                 outcome, storeVars>>

\* time passes
Tick ==
  /\ clock < MaxTime
  /\ clock' = clock + 1
  /\ UNCHANGED <<lockFile, pc, cmd, start, waitedMs, wake, lockTs, reclaimed,
                 outcome, storeVars>>

\* ------------------------------------------- the lock on its own: SpecLock
\* Processes call withLock again and again.  The folder may hold a lock left
\* by a writer that was killed, at any point of its writeFileSync.
LeftLocks ==
  { NoLock,
    [exists |-> TRUE, creator |-> "", kind |-> "json", pid |-> "",
     timestamp |-> 0],
    [exists |-> TRUE, creator |-> "", kind |-> "empty", pid |-> "",
     timestamp |-> NoTs] }

EmptyStore ==
  /\ files = [path \in Paths |-> NoFile]
  /\ nextId = 0
  /\ opsRun = 0
  /\ origRecords = <<>>
  /\ lastWritten = [path \in {DatabasePaths.dataFile,
                               DatabasePaths.deletedFile} |-> <<>>]

LockInit ==
  /\ InitLocals
  /\ EmptyStore
  /\ clock = 0
  /\ lockFile \in LeftLocks

LockStep(p) ==
  \/ WithLock(p)
  \/ AcqExists(p)
  \/ AcqRead(p)
  \/ AcqUnlinkStale(p)
  \/ AcqCatch(p)
  \/ AcqWake(p)
  \/ AcqCreate(p)
  \/ AcqWrite(p)
  \/ \E result \in {"ok", "THROWN", "REJECTED"} : Fn(p, result)
  \/ RelExists(p)
  \/ RelUnlink(p)
  \/ Finish(p)

LockNext == Tick \/ \E p \in Procs : LockStep(p)

SpecLock == LockInit /\ [][LockNext]_vars

\* ----------------------------------------------------------------- commands
\* ulid(): a new id at each call
IdSeq == <<"A", "B", "C", "D">>
Ulid(n) == IdSeq[n + 1]
UsedIds == { Ulid(n) : n \in 0..(MaxIds - 1) }

\* id lists given on the command line
IdLists ==
  { <<a>> : a \in UsedIds } \cup
  { <<Ulid(n), Ulid(n + 1)>> : n \in 0..(MaxIds - 2) }

\* idList.includes(id)
Includes(ids, id) == \E i \in DOMAIN ids : ids[i] = id

\* records.find(r => r._id === id) finds something
HasId(records, id) == \E i \in DOMAIN records : records[i].id = id

\* a command of any kind calls withLock
Invoke_AlwaysLocks(p, c, ops) ==
  /\ pc[p] = "idle"
  /\ opsRun < MaxOps
  /\ opsRun' = opsRun + 1
  /\ cmd' = [cmd EXCEPT ![p] = c]
  /\ plan' = [plan EXCEPT ![p] = ops]
  /\ pc' = [pc EXCEPT ![p] = "acq_top"]
  /\ start' = [start EXCEPT ![p] = clock]
  /\ reclaimed' = [q \in Procs |-> FALSE]
  /\ snapshot' = [snapshot EXCEPT ![p] =
       Logs(LoadRecordsFromFile(files[DatabasePaths.dataFile],
                                FALSE).records,
            LoadRecordsFromFile(files[DatabasePaths.deletedFile],
                                TRUE).records)]
  /\ UNCHANGED <<clock, lockFile, files, currentRecords, deletedRecords,
                 outcome, waitedMs, wake, lockTs, origRecords, lastWritten,
                 expected, before>>

\* a command is invoked: its arguments, the file operations its fn begins
\* with, and the call of withLock when it takes the lock
Invoke(p, c, ops) ==
  /\ pc[p] = "idle"
  /\ opsRun < MaxOps
  /\ opsRun' = opsRun + 1
  /\ cmd' = [cmd EXCEPT ![p] = c]
  /\ plan' = [plan EXCEPT ![p] = ops]
  /\ pc' = [pc EXCEPT ![p] = IF Locked(c.op) THEN "acq_top" ELSE "loading"]
  /\ start' = [start EXCEPT ![p] = clock]
  /\ reclaimed' = [q \in Procs |-> FALSE]
  /\ snapshot' = [snapshot EXCEPT ![p] =
       Logs(LoadRecordsFromFile(files[DatabasePaths.dataFile],
                                FALSE).records,
            LoadRecordsFromFile(files[DatabasePaths.deletedFile],
                                TRUE).records)]
  /\ UNCHANGED <<clock, lockFile, files, currentRecords, deletedRecords,
                 outcome, waitedMs, wake, lockTs, origRecords, lastWritten,
                 expected, before>>

\* fn goes on to its writes
Proceed(p, ops) ==
  /\ pc' = [pc EXCEPT ![p] = "writing"]
  /\ plan' = [plan EXCEPT ![p] = ops]
  /\ UNCHANGED outcome

\* fn has done its loads
LoadsDone(p, op) == pc[p] = "loading" /\ plan[p] = <<>> /\ cmd[p].op = op

\* addCommand from ulid() on: the record is built, then withLock; c holds
\* what the command has read before
AddRecord(p, c, title) ==
  /\ nextId < MaxIds
  /\ nextId' = nextId + 1
  /\ Invoke(p, [c EXCEPT !.op = "add", !.now = clock,
               !.records = <<SdbRecord(Ulid(nextId), clock, clock, NoTs,
                                       title)>>],
            LoadOps(DatabasePaths.dataFile))

\* addCommand with a title that the schema accepts
AddCommand(p, title) == AddRecord(p, NoCmd, title)

\* addCommand, inside the lock: records.push(record); writeRecords
AddBody(p) ==
  /\ LoadsDone(p, "add")
  /\ Proceed(p, WriteRecordsToFileOps(DatabasePaths.dataFile,
                                      DatabasePaths.tempFile,
                                      Append(currentRecords[p],
                                             cmd[p].records[1])))
  /\ UNCHANGED <<clock, lockFile, lockTs, reclaimed, files, cmd,
                 currentRecords, deletedRecords, start, waitedMs, wake,
                 nextId, opsRun, histVars>>

\* updateCommand: withLock
UpdateCommand(p, ids, title) ==
  /\ UNCHANGED nextId
  /\ Invoke(p, [NoCmd EXCEPT !.op = "update", !.ids = ids, !.title = title],
            LoadOps(DatabasePaths.deletedFile) \o
            LoadOps(DatabasePaths.dataFile))

\* parseFieldArgs: fieldName.startsWith('_')
Reserved(fieldName) == fieldName # <<>> /\ Head(fieldName) = "_"

\* field names given on the command line
FieldNames ==
  { <<"t">>, <<"_", "i", "d">>, <<"_", "c">>, <<"_", "u">>, <<"_", "d">> }

\* addCommand, updateCommand: parseFieldArgs throws invalid-input for a
\* reserved field name, before the command loads or locks anything
FieldArgsRejected(p, op, fieldName) ==
  /\ pc[p] = "idle"
  /\ opsRun < MaxOps
  /\ Reserved(fieldName)
  /\ opsRun' = opsRun + 1
  /\ cmd' = [cmd EXCEPT ![p] = [NoCmd EXCEPT !.op = op, !.title = fieldName]]
  /\ pc' = [pc EXCEPT ![p] = "done"]
  /\ outcome' = [outcome EXCEPT ![p] = "INVALID_INPUT"]
  /\ snapshot' = [snapshot EXCEPT ![p] =
       Logs(LoadRecordsFromFile(files[DatabasePaths.dataFile],
                                FALSE).records,
            LoadRecordsFromFile(files[DatabasePaths.deletedFile],
                                TRUE).records)]
  /\ UNCHANGED <<clock, lockFile, lockTs, reclaimed, files, plan,
                 currentRecords, deletedRecords, start, waitedMs, wake,
                 nextId, origRecords, lastWritten, expected, before>>

\* ---------------------------------------------------------- lib/validation
\* the keys of a record object
IdField == <<"_", "i", "d">>
CreatedField == <<"_", "c", "r", "e", "a", "t", "e", "d">>
UpdatedField == <<"_", "u", "p", "d", "a", "t", "e", "d">>
DeletedField == <<"_", "d", "e", "l", "e", "t", "e", "d">>
TitleField == <<"t", "i", "t", "l", "e">>

\* Object.entries(record): the record as the object the commands iterate
Entries(record) ==
  [key \in {IdField, CreatedField, UpdatedField, TitleField}
           \cup (IF record.deleted = NoTs THEN {} ELSE {DeletedField}) |->
     IF key = IdField THEN Str(<<record.id>>)
     ELSE IF key = CreatedField THEN Num(record.created)
     ELSE IF key = UpdatedField THEN Num(record.updated)
     ELSE IF key = DeletedField THEN Num(record.deleted)
     ELSE Str(record.title)]

\* a validateSchemaFile that lets reserved names through
ValidateSchemaFile_AnyName(schema) == schema.type = "object"

\* validateSchemaFile returns: the schema has type 'object' and neither a
\* property nor a required entry starts with '_'; otherwise it throws
\* invalidInput
ValidateSchemaFile(schema) ==
  /\ schema.type = "object"
  /\ \A key \in DOMAIN schema.properties : ~ Reserved(key)
  /\ \A i \in DOMAIN schema.required : ~ Reserved(schema.required[i])

\* parseFieldArgs on the tokens --name value: it throws invalidInput at a
\* reserved name, and a name given twice keeps its last value
ParseFieldArgs(args) ==
  IF \E i \in DOMAIN args : Reserved(args[i].name)
  THEN [ok |-> FALSE, fields |-> EmptyObject]
  ELSE [ok |-> TRUE,
        fields |->
          [key \in { args[i].name : i \in DOMAIN args } |->
             LET last == CHOOSE i \in DOMAIN args :
                           /\ args[i].name = key
                           /\ \A j \in DOMAIN args :
                                args[j].name = key => j <= i
             IN args[last].value]]

\* an applySchemaDefaults whose defaults replace the values given
ApplySchemaDefaults_Override(data, schema) ==
  [key \in DOMAIN data \cup { k \in DOMAIN schema.properties :
                                 schema.properties[k] # Undefined } |->
     IF key \in DOMAIN schema.properties
        /\ schema.properties[key] # Undefined
     THEN schema.properties[key] ELSE data[key]]

\* applySchemaDefaults
ApplySchemaDefaults(data, schema) ==
  LET properties == schema.properties
      given(key) == key \in DOMAIN data /\ data[key] # Undefined
      defaulted == { key \in DOMAIN properties :
                       ~ given(key) /\ properties[key] # Undefined }
  IN [key \in DOMAIN data \cup defaulted |->
        IF given(key) THEN data[key]
        ELSE IF key \in defaulted THEN properties[key] ELSE data[key]]

\* a userData that copies every key of the record
UserData_AllKeys(entries) == entries

\* updateCommand, validateCommand: the keys of the record that do not start
\* with '_'
UserData(entries) ==
  [key \in { k \in DOMAIN entries : ~ Reserved(k) } |-> entries[key]]

\* a validator that accepts every object
ValidateWithValidator_Lenient(data, schema) == TRUE

\* validateWithValidator, of which the model keeps the required keyword
ValidateWithValidator(data, schema) ==
  \A i \in DOMAIN schema.required : schema.required[i] \in DOMAIN data

\* isDatabaseInitialized
IsDatabaseInitialized == files[DatabasePaths.schemaFile].exists

\* loadSchema, of a schema file that initializeDatabase wrote
LoadSchema == files[DatabasePaths.schemaFile].content

\* a command ends with an error before it loads or locks anything
OutputError(p, c, code) ==
  /\ pc[p] = "idle"
  /\ opsRun < MaxOps
  /\ opsRun' = opsRun + 1
  /\ cmd' = [cmd EXCEPT ![p] = c]
  /\ pc' = [pc EXCEPT ![p] = "done"]
  /\ outcome' = [outcome EXCEPT ![p] = code]
  /\ snapshot' = [snapshot EXCEPT ![p] =
       Logs(LoadRecordsFromFile(files[DatabasePaths.dataFile],
                                FALSE).records,
            LoadRecordsFromFile(files[DatabasePaths.deletedFile],
                                TRUE).records)]
  /\ UNCHANGED <<clock, lockFile, lockTs, reclaimed, files, plan,
                 currentRecords, deletedRecords, start, waitedMs, wake,
                 nextId, origRecords, lastWritten, expected, before>>

\* initCommand with the schema read from the schema file it was given
InitCommand(p, schema, force) ==
  LET c == [NoCmd EXCEPT !.op = "init", !.schema = schema] IN
  IF IsDatabaseInitialized /\ ~ force
  THEN OutputError(p, c, "RESOURCE_EXISTS")
  ELSE IF ~ ValidateSchemaFile(schema)
  THEN OutputError(p, c, "INVALID_INPUT")
  ELSE /\ pc[p] = "idle"
       /\ opsRun < MaxOps
       /\ opsRun' = opsRun + 1
       /\ cmd' = [cmd EXCEPT ![p] = c]
       /\ pc' = [pc EXCEPT ![p] = "done"]
       /\ outcome' = [outcome EXCEPT ![p] = "ok"]
       /\ files' = [path \in DOMAIN files |->
                      IF path = DatabasePaths.schemaFile THEN File(schema)
                      ELSE IF /\ path \in {DatabasePaths.dataFile,
                                           DatabasePaths.deletedFile}
                              /\ ~ files[path].exists
                      THEN File(<<>>)
                      ELSE files[path]]
       /\ snapshot' = [snapshot EXCEPT ![p] =
            Logs(LoadRecordsFromFile(files[DatabasePaths.dataFile],
                                     FALSE).records,
                 LoadRecordsFromFile(files[DatabasePaths.deletedFile],
                                     TRUE).records)]
       /\ UNCHANGED <<clock, lockFile, lockTs, reclaimed, plan,
                      currentRecords, deletedRecords, start, waitedMs, wake,
                      nextId, origRecords, lastWritten, expected, before>>

\* addCommand with its field arguments: parseFieldArgs, loadSchema,
\* applySchemaDefaults, validateAgainstSchema, then the record and withLock
AddFields(p, args) ==
  LET userData == ParseFieldArgs(args)
      schema == LoadSchema
      dataWithDefaults == ApplySchemaDefaults(userData.fields, schema)
      c == [NoCmd EXCEPT !.op = "add", !.args = args]
  IN
  IF ~ IsDatabaseInitialized
  THEN OutputError(p, c, "DATABASE_NOT_INITIALIZED")
  ELSE IF ~ userData.ok THEN OutputError(p, c, "INVALID_INPUT")
  ELSE IF ~ ValidateWithValidator(dataWithDefaults, schema)
  THEN OutputError(p, [c EXCEPT !.schema = schema,
                                !.validated = <<dataWithDefaults>>],
                   "SCHEMA_VALIDATION_FAILED")
  ELSE AddRecord(p, [c EXCEPT !.schema = schema,
                              !.validated = <<dataWithDefaults>>],
                 dataWithDefaults[TitleField].str)

\* updateCommand with its field arguments: parseFieldArgs, loadSchema, then
\* withLock
UpdateFields(p, ids, args) ==
  LET updates == ParseFieldArgs(args)
      c == [NoCmd EXCEPT !.op = "update", !.ids = ids, !.args = args]
  IN
  IF ~ IsDatabaseInitialized
  THEN OutputError(p, c, "DATABASE_NOT_INITIALIZED")
  ELSE IF ~ updates.ok \/ DOMAIN updates.fields = {}
  THEN OutputError(p, c, "INVALID_INPUT")
  ELSE /\ UNCHANGED nextId
       /\ Invoke(p, [c EXCEPT !.title = updates.fields[TitleField].str,
                              !.schema = LoadSchema],
                 LoadOps(DatabasePaths.deletedFile) \o
                 LoadOps(DatabasePaths.dataFile))

\* validateCommand: loadSchema, then loadRecords
ValidateCommand(p) ==
  LET c == [NoCmd EXCEPT !.op = "validate"] IN
  IF ~ IsDatabaseInitialized
  THEN OutputError(p, c, "DATABASE_NOT_INITIALIZED")
  ELSE /\ UNCHANGED nextId
       /\ Invoke(p, [c EXCEPT !.schema = LoadSchema],
                 LoadOps(DatabasePaths.dataFile))

\* validateCommand, after its load: each record that carries no _deleted is
\* given to the validator without its reserved fields
ValidateBody(p) ==
  /\ LoadsDone(p, "validate")
  /\ LET records == SelectSeq(currentRecords[p], LAMBDA r : r.deleted = NoTs)
         userData == [i \in DOMAIN records |-> UserData(Entries(records[i]))]
         issues == { i \in DOMAIN records :
                       ~ ValidateWithValidator(userData[i], cmd[p].schema) }
     IN /\ cmd' = [cmd EXCEPT ![p].validated = userData]
        /\ outcome' = [outcome EXCEPT ![p] =
                         IF issues = {} THEN "ok"
                         ELSE "SCHEMA_VALIDATION_FAILED"]
  /\ pc' = [pc EXCEPT ![p] = "done"]
  /\ UNCHANGED <<clock, lockFile, lockTs, reclaimed, files, plan,
                 currentRecords, deletedRecords, start, waitedMs, wake,
                 nextId, opsRun, histVars>>

\* schemaCommand: ensureDatabaseExists, loadSchema, and the schema is put out
SchemaCommand(p) ==
  LET c == [NoCmd EXCEPT !.op = "schema"] IN
  IF ~ IsDatabaseInitialized
  THEN OutputError(p, c, "DATABASE_NOT_INITIALIZED")
  ELSE OutputError(p, [c EXCEPT !.schema = LoadSchema], "ok")

\* an update that stamps the record as new
NextRecord_Recreated(existingRecord, title, now) ==
  [existingRecord EXCEPT !.title = title, !.created = now, !.updated = now]

\* updateCommand: {...existingRecord, ...updates, _updated: now}
NextRecord(existingRecord, title, now) ==
  [existingRecord EXCEPT !.title = title, !.updated = now]

\* updateCommand, inside the lock, after the two loads: each record found is
\* given to the validator as it will be written, without its reserved
\* fields, in the order of the ids
UpdateBody(p) ==
  /\ LoadsDone(p, "update")
  /\ LET idList == cmd[p].ids
         allRecords == currentRecords[p]
         legacyDeleted == SelectSeq(allRecords, LAMBDA r : r.deleted # NoTs)
         current == SelectSeq(allRecords, LAMBDA r : r.deleted = NoTs)
         deletedList == { i \in DOMAIN idList :
                            \/ HasId(deletedRecords[p], idList[i])
                            \/ HasId(legacyDeleted, idList[i]) }
         missingIds == { i \in DOMAIN idList \ deletedList :
                           ~ HasId(current, idList[i]) }
         nextRecords == [i \in DOMAIN current |->
                           IF Includes(idList, current[i].id)
                           THEN NextRecord(current[i], cmd[p].title, clock)
                           ELSE current[i]]
         found == SelectSeq(idList,
                            LAMBDA id : /\ ~ HasId(deletedRecords[p], id)
                                        /\ ~ HasId(legacyDeleted, id)
                                        /\ HasId(current, id))
         existingRecord(id) ==
           current[CHOOSE k \in DOMAIN current :
                     /\ current[k].id = id
                     /\ \A j \in 1..(k - 1) : current[j].id # id]
         userData == [i \in DOMAIN found |->
                        UserData(Entries(NextRecord(existingRecord(found[i]),
                                                    cmd[p].title, clock)))]
         invalid == { i \in DOMAIN userData :
                        ~ ValidateWithValidator(userData[i], cmd[p].schema) }
         validated == IF invalid = {} THEN userData
                      ELSE SubSeq(userData, 1,
                                  CHOOSE i \in invalid :
                                    \A j \in invalid : i <= j)
     IN
     /\ cmd' = [cmd EXCEPT ![p].validated = validated]
     /\ IF invalid # {} THEN Throw(p, "SCHEMA_VALIDATION_FAILED")
        ELSE IF deletedList # {} THEN Throw(p, "INVALID_INPUT")
        ELSE IF missingIds # {} THEN Throw(p, "RECORDS_NOT_FOUND")
        ELSE Proceed(p, WriteRecordsToFileOps(DatabasePaths.dataFile,
                                              DatabasePaths.tempFile,
                                              nextRecords))
  /\ UNCHANGED <<clock, lockFile, lockTs, reclaimed, files,
                 currentRecords, deletedRecords, start, waitedMs, wake,
                 nextId, opsRun, histVars>>

\* deleteCommand: withLock
DeleteCommand(p, ids, hard) ==
  /\ UNCHANGED nextId
  /\ Invoke(p, [NoCmd EXCEPT !.op = "delete", !.ids = ids, !.hard = hard],
            LoadOps(DatabasePaths.dataFile) \o
            LoadOps(DatabasePaths.deletedFile))

\* a soft delete that leaves the record without a deletion time
SoftDeleted_NoStamp(record, now) == [record EXCEPT !.updated = now]

\* deleteCommand: {...record, _deleted: record._deleted || now, _updated: now}
SoftDeleted(record, now) ==
  [record EXCEPT !.deleted = IF record.deleted # NoTs THEN record.deleted
                             ELSE now,
                 !.updated = now]

\* a soft delete that keeps the deleted records in the active log
RemainingActive_Copy(records, idList) == records

\* deleteCommand: currentRecords.filter(...) returns false for the ids given
RemainingActive(records, idList) ==
  SelectSeq(records, LAMBDA r : ~ Includes(idList, r.id))

\* a hard delete that leaves the deleted log as it is
RemainingDeleted_Kept(records, idList) == records

\* deleteCommand: deletedRecords.filter(r => !idList.includes(r._id))
RemainingDeleted(records, idList) ==
  SelectSeq(records, LAMBDA r : ~ Includes(idList, r.id))

\* deleteCommand, inside the lock, after the two loads
DeleteBody(p) ==
  /\ LoadsDone(p, "delete")
  /\ LET idList == cmd[p].ids
         current == currentRecords[p]
         deleted == deletedRecords[p]
         missingIds == { i \in DOMAIN idList :
                           /\ ~ HasId(current, idList[i])
                           /\ ~ HasId(deleted, idList[i]) }
         alreadyDeleted == { i \in DOMAIN idList :
                               /\ ~ HasId(current, idList[i])
                               /\ HasId(deleted, idList[i]) }
         remainingActive == RemainingActive(current, idList)
         remainingDeleted == RemainingDeleted(deleted, idList)
         moved == SelectSeq(current, LAMBDA r : /\ Includes(idList, r.id)
                                                /\ ~ HasId(deleted, r.id))
         writeActive == WriteRecordsToFileOps(DatabasePaths.dataFile,
                                              DatabasePaths.tempFile,
                                              remainingActive)
         writeDeleted == WriteRecordsToFileOps(DatabasePaths.deletedFile,
                                               DatabasePaths.deletedTempFile,
                                               remainingDeleted)
     IN
     IF cmd[p].hard
     THEN IF missingIds # {} THEN Throw(p, "RECORDS_NOT_FOUND")
          ELSE Proceed(p,
                 (IF Len(remainingActive) # Len(current)
                  THEN writeActive ELSE <<>>) \o
                 (IF Len(remainingDeleted) # Len(deleted)
                  THEN writeDeleted ELSE <<>>))
     ELSE IF alreadyDeleted # {} THEN Throw(p, "INVALID_INPUT")
          ELSE IF missingIds # {} THEN Throw(p, "RECORDS_NOT_FOUND")
          ELSE Proceed(p,
                 [i \in DOMAIN moved |->
                    AppendOp(SoftDeleted(moved[i], clock))] \o writeActive)
  /\ UNCHANGED <<clock, lockFile, lockTs, reclaimed, files, cmd,
                 currentRecords, deletedRecords, start, waitedMs, wake,
                 nextId, opsRun, histVars>>

\* appendDeletedRecord: writeFileSync(deletedFile, line, {flag: 'a'})
AppendFileSync(p) ==
  /\ pc[p] = "writing"
  /\ plan[p] # <<>>
  /\ Head(plan[p]).op = "append"
  /\ LET op == Head(plan[p]) IN
     /\ files' = [files EXCEPT ![op.path] =
                    File(files[op.path].content \o
                         Stringify(op.records[1]) \o <<NL>>)]
     /\ lastWritten' = [lastWritten EXCEPT ![op.path] =
                          Append(lastWritten[op.path], op.records[1])]
  /\ plan' = [plan EXCEPT ![p] = Tail(plan[p])]
  /\ UNCHANGED <<clock, lockFile, lockTs, reclaimed, pc, cmd, currentRecords,
                 deletedRecords, outcome, start, waitedMs, wake, nextId,
                 opsRun, origRecords, expected, before, snapshot>>

\* appendDeletedRecord: the process is killed inside writeFileSync, after
\* the first character of the line or before its last, the line terminator
AppendFileSyncKilled(p, most) ==
  /\ pc[p] = "writing"
  /\ plan[p] # <<>>
  /\ Head(plan[p]).op = "append"
  /\ LET op == Head(plan[p])
         line == Stringify(op.records[1]) \o <<NL>>
         n == IF most THEN Len(line) - 1 ELSE 1
     IN files' = [files EXCEPT ![op.path] =
                    File(files[op.path].content \o SubSeq(line, 1, n))]
  /\ pc' = [pc EXCEPT ![p] = "killed"]
  /\ UNCHANGED <<clock, lockFile, lockTs, reclaimed, cmd, plan,
                 currentRecords, deletedRecords, outcome, start, waitedMs,
                 wake, nextId, opsRun, histVars>>

\* gcCommand: the cutoff is computed, then withLock; all is --all
GcCommand(p, all, age, dryRun) ==
  /\ age <= clock
  /\ UNCHANGED nextId
  /\ Invoke(p, [NoCmd EXCEPT !.op = "gc", !.dryRun = dryRun,
                   !.cutoff = IF all THEN NoTs ELSE clock - age],
            LoadOps(DatabasePaths.deletedFile))

\* computeGc with a cutoff that lets a record go only when it is older
Expired_Strict(ts, cutoffTimeMs) == ts < cutoffTimeMs

\* computeGc: the record is old enough to go
Expired(ts, cutoffTimeMs) == ts <= cutoffTimeMs

\* computeGc: a record with no _deleted, or one Date.parse cannot read
Invalid(record) == record.deleted = NoTs \/ record.deleted = BadTs

\* computeGc that dates every record
SkippedInvalid_Never(record, cutoffTimeMs) == FALSE

\* computeGc: the record is kept and counted in skippedInvalid; a cutoff of
\* NoTs is null
SkippedInvalid(record, cutoffTimeMs) ==
  cutoffTimeMs # NoTs /\ Invalid(record)

\* computeGc that treats a null cutoff as the oldest time
Removed_Dated(record, cutoffTimeMs) ==
  /\ ~ Invalid(record)
  /\ Expired(record.deleted, cutoffTimeMs)

\* computeGc: the record is counted in removed
Removed(record, cutoffTimeMs) ==
  \/ cutoffTimeMs = NoTs
  \/ /\ ~ SkippedInvalid(record, cutoffTimeMs)
     /\ Expired(record.deleted, cutoffTimeMs)

\* computeGc: the records that remain and the stats
ComputeGc(records, cutoffTimeMs) ==
  LET removed ==
        Len(SelectSeq(records, LAMBDA r : Removed(r, cutoffTimeMs)))
      skippedInvalid ==
        Len(SelectSeq(records, LAMBDA r : SkippedInvalid(r, cutoffTimeMs)))
  IN [remaining |->
        SelectSeq(records, LAMBDA r : ~ Removed(r, cutoffTimeMs)),
      stats |-> Stats(Len(records), removed, skippedInvalid)]

\* a gcCommand that rewrites the deleted log also when --dry-run is given
GcBody_AlwaysWrites(p) ==
  /\ LoadsDone(p, "gc")
  /\ Proceed(p, WriteRecordsToFileOps(
                  DatabasePaths.deletedFile,
                  DatabasePaths.deletedTempFile,
                  ComputeGc(deletedRecords[p], cmd[p].cutoff).remaining))
  /\ cmd' = [cmd EXCEPT ![p].stats =
                ComputeGc(deletedRecords[p], cmd[p].cutoff).stats]
  /\ UNCHANGED <<clock, lockFile, lockTs, reclaimed, files,
                 currentRecords, deletedRecords, start, waitedMs, wake,
                 nextId, opsRun, histVars>>

\* gcCommand, inside the lock, after the load
GcBody(p) ==
  /\ LoadsDone(p, "gc")
  /\ Proceed(p, IF cmd[p].dryRun THEN <<>>
                ELSE WriteRecordsToFileOps(
                       DatabasePaths.deletedFile,
                       DatabasePaths.deletedTempFile,
                       ComputeGc(deletedRecords[p],
                                 cmd[p].cutoff).remaining))
  /\ cmd' = [cmd EXCEPT ![p].stats =
                ComputeGc(deletedRecords[p], cmd[p].cutoff).stats]
  /\ UNCHANGED <<clock, lockFile, lockTs, reclaimed, files,
                 currentRecords, deletedRecords, start, waitedMs, wake,
                 nextId, opsRun, histVars>>

\* listCommand without filter, time window, sort or limit, on the files as
\* they are
ListCommand(includeDeleted) ==
  LET allActiveRecords ==
        LoadRecordsFromFile(files[DatabasePaths.dataFile], FALSE).records
      legacyDeleted == SelectSeq(allActiveRecords, LAMBDA r : r.deleted # NoTs)
      records == SelectSeq(allActiveRecords, LAMBDA r : r.deleted = NoTs)
      deleted ==
        LoadRecordsFromFile(files[DatabasePaths.deletedFile], TRUE).records
      uniqueDeleted == SelectSeq(deleted, LAMBDA r : ~ HasId(records, r.id))
      legacyUnique ==
        SelectSeq(legacyDeleted, LAMBDA r : ~ HasId(records, r.id))
  IN IF includeDeleted THEN records \o uniqueDeleted \o legacyUnique
     ELSE records

\* -------------------------------------------------------------- lib/filter
\* a record of the filter's input: _id and the user fields a, b, c, n, t
FilterRecord(id, a, b, c, n, t) ==
  [id |-> id, a |-> a, b |-> b, c |-> c, n |-> n, t |-> t]

\* record[field]
Field(record, field) ==
  IF field = <<"a">> THEN record.a
  ELSE IF field = <<"b">> THEN record.b
  ELSE IF field = <<"c">> THEN record.c
  ELSE IF field = <<"n">> THEN record.n
  ELSE IF field = <<"t">> THEN record.t
  ELSE IF field = <<"_", "i", "d">> THEN Str(<<record.id>>)
  ELSE IF field = DeletedField
  THEN IF record.deleted = NoTs THEN Undefined
       ELSE IF record.deleted = BadTs THEN Str(<<BadTsChar>>)
       ELSE Str(<<Digits[record.deleted + 1]>>)
  ELSE Undefined

SQ == "'"
WordChars ==
  {"a", "b", "c", "d", "e", "f", "g", "h", "i", "j", "k", "l", "m", "n",
   "o", "p", "q", "r", "s", "t", "u", "v", "w", "x", "y", "z", "_"}
  \cup DigitChars

\* String.prototype.trim
Trim(s) ==
  LET kept == { i \in DOMAIN s : s[i] \notin Whitespace }
      first == CHOOSE i \in kept : \A j \in kept : i <= j
      last == CHOOSE i \in kept : \A j \in kept : j <= i
  IN IF kept = {} THEN <<>> ELSE SubSeq(s, first, last)

\* str.slice(i - 1).startsWith(w)
StartsWithAt(str, i, w) ==
  /\ i + Len(w) - 1 <= Len(str)
  /\ \A k \in 1..Len(w) : str[i + k - 1] = w[k]

AND == <<" ", "a", "n", "d", " ">>
OR == <<" ", "o", "r", " ">>

\* splitOnOperator: the loop over the characters of str
RECURSIVE SplitLoop(_, _, _, _, _, _, _, _)
SplitLoop(str, operator, i, current, depth, inString, stringChar, parts) ==
  IF i > Len(str) THEN Append(parts, Trim(current))
  ELSE
    LET char == str[i]
        quote == char \in {QT, SQ} /\ (i = 1 \/ str[i - 1] # BS)
        inString2 == IF quote /\ ~ inString THEN TRUE
                     ELSE IF quote /\ char = stringChar THEN FALSE
                     ELSE inString
        stringChar2 == IF quote /\ ~ inString THEN char ELSE stringChar
        depth2 == IF inString2 THEN depth
                  ELSE IF char = "(" THEN depth + 1
                  ELSE IF char = ")" THEN depth - 1
                  ELSE depth
    IN IF ~ inString2 /\ depth2 = 0 /\ StartsWithAt(str, i, operator)
       THEN SplitLoop(str, operator, i + Len(operator), <<>>, depth2,
                      inString2, stringChar2, Append(parts, Trim(current)))
       ELSE SplitLoop(str, operator, i + 1, Append(current, char), depth2,
                      inString2, stringChar2, parts)

\* splitOnOperator
SplitOnOperator(str, operator) ==
  SelectSeq(SplitLoop(str, operator, 1, <<>>, 0, FALSE, "", <<>>),
            LAMBDA part : Len(part) > 0)

\* the end of the longest run of characters of set cs that starts at i
RECURSIVE RunEnd(_, _, _)
RunEnd(s, i, cs) ==
  IF i <= Len(s) /\ s[i] \in cs THEN RunEnd(s, i + 1, cs) ELSE i

\* Number(trimmed) for a sequence of digits; NaN for the other literals of
\* the model
IsNumber(s) == s # <<>> /\ \A i \in 1..Len(s) : s[i] \in DigitChars

RECURSIVE NumberOf(_)
NumberOf(s) ==
  IF s = <<>> THEN 0
  ELSE 10 * NumberOf(SubSeq(s, 1, Len(s) - 1)) + StrToTs(s[Len(s)])

\* parseValue
ParseValue(valueStr) ==
  LET trimmed == Trim(valueStr) IN
  IF trimmed # <<>> /\ \E q \in {QT, SQ} :
       Head(trimmed) = q /\ trimmed[Len(trimmed)] = q
  THEN Str(SubSeq(trimmed, 2, Len(trimmed) - 1))
  ELSE IF trimmed = <<"t", "r", "u", "e">> THEN Bool(TRUE)
  ELSE IF trimmed = <<"f", "a", "l", "s", "e">> THEN Bool(FALSE)
  ELSE IF trimmed = <<"n", "u", "l", "l">> THEN Null
  ELSE IF IsNumber(trimmed) THEN Num(NumberOf(trimmed))
  ELSE Str(trimmed)

\* a === b
StrictEquals(a, b) ==
  /\ a.type = b.type
  /\ a.type # "array"
  /\ a.num = b.num
  /\ a.str = b.str

\* the parsed condition: a node of the given kind
Node(kind, parts, field, operator, value) ==
  [kind |-> kind, parts |-> parts, field |-> field, operator |-> operator,
   value |-> value]

\* the alternatives of the comparison pattern, in the order it tries them
ComparisonOperators ==
  <<(<<"=", "=">>), (<<"!", "=">>), (<<">">>), (<<"<">>), (<<">", "=">>),
    (<<"<", "=">>)>>

\* /^\.(\w+)\s*(==|!=|>|<|>=|<=)\s*(.+)$/: the first alternative that
\* matches at i and leaves at least one character for the value, 0 if none
MatchOperator(s, i) ==
  LET matching == { k \in DOMAIN ComparisonOperators :
                      /\ StartsWithAt(s, i, ComparisonOperators[k])
                      /\ i + Len(ComparisonOperators[k]) <= Len(s) }
  IN IF matching = {} THEN 0
     ELSE CHOOSE k \in matching : \A j \in matching : k <= j

\* /^\.(\w+)\s*\|\s*contains\(["'](.+?)["']\)$/
CONTAINS == <<"c", "o", "n", "t", "a", "i", "n", "s", "(">>
MatchContains(s) ==
  LET w == RunEnd(s, 2, WordChars)
      bar == RunEnd(s, w, Whitespace)
      call == RunEnd(s, bar + 1, Whitespace)
      open == call + Len(CONTAINS)
  IN IF /\ s # <<>> /\ Head(s) = "." /\ w > 2
        /\ bar <= Len(s) /\ s[bar] = "|"
        /\ StartsWithAt(s, call, CONTAINS)
        /\ open + 3 <= Len(s)
        /\ s[open] \in {QT, SQ}
        /\ s[Len(s) - 1] \in {QT, SQ}
        /\ s[Len(s)] = ")"
     THEN Node("contains", <<>>, SubSeq(s, 2, w - 1), <<>>,
               Str(SubSeq(s, open + 1, Len(s) - 2)))
     ELSE Node("none", <<>>, <<>>, <<>>, Undefined)

\* the comparison pattern
MatchComparison(s) ==
  LET w == RunEnd(s, 2, WordChars)
      o == RunEnd(s, w, Whitespace)
      k == MatchOperator(s, o)
  IN IF s # <<>> /\ Head(s) = "." /\ w > 2 /\ k # 0
     THEN Node("comparison", <<>>, SubSeq(s, 2, w - 1),
               ComparisonOperators[k],
               ParseValue(SubSeq(s, o + Len(ComparisonOperators[k]),
                                 Len(s))))
     ELSE Node("none", <<>>, <<>>, <<>>, Undefined)

\* /^\.(\w+)$/
MatchExists(s) ==
  IF s # <<>> /\ Head(s) = "." /\ Len(s) > 1
     /\ RunEnd(s, 2, WordChars) = Len(s) + 1
  THEN Node("exists", <<>>, Tail(s), <<>>, Undefined)
  ELSE Node("none", <<>>, <<>>, <<>>, Undefined)

\* /^not\s+\.(\w+)$/
NOT == <<"n", "o", "t">>
MatchNotExists(s) ==
  LET d == RunEnd(s, Len(NOT) + 1, Whitespace) IN
  IF /\ StartsWithAt(s, 1, NOT)
     /\ d > Len(NOT) + 1
     /\ d < Len(s) /\ s[d] = "."
     /\ RunEnd(s, d + 1, WordChars) = Len(s) + 1
  THEN Node("notExists", <<>>, SubSeq(s, d + 1, Len(s)), <<>>, Undefined)
  ELSE Node("none", <<>>, <<>>, <<>>, Undefined)

\* parseCondition; a node of kind "error" is the thrown invalidFilter
RECURSIVE ParseCondition(_)
ParseCondition(condition) ==
  LET trimmed == Trim(condition)
      andParts == SplitOnOperator(trimmed, AND)
      orParts == SplitOnOperator(trimmed, OR)
  IN
  IF Len(andParts) > 1
  THEN Node("and", [i \in DOMAIN andParts |-> ParseCondition(andParts[i])],
            <<>>, <<>>, Undefined)
  ELSE IF Len(orParts) > 1
  THEN Node("or", [i \in DOMAIN orParts |-> ParseCondition(orParts[i])],
            <<>>, <<>>, Undefined)
  ELSE IF MatchContains(trimmed).kind # "none" THEN MatchContains(trimmed)
  ELSE IF MatchComparison(trimmed).kind # "none"
  THEN MatchComparison(trimmed)
  ELSE IF MatchExists(trimmed).kind # "none" THEN MatchExists(trimmed)
  ELSE IF MatchNotExists(trimmed).kind # "none"
  THEN MatchNotExists(trimmed)
  ELSE Node("error", <<>>, <<>>, <<>>, Undefined)

\* parseCondition threw while it parsed the node or one of its parts
RECURSIVE Throws(_)
Throws(node) ==
  \/ node.kind = "error"
  \/ \E i \in DOMAIN node.parts : Throws(node.parts[i])

\* createComparisonFilter whose ordering operators compare whatever they get
BothNumbers_Any(fieldValue, value) == TRUE

\* createComparisonFilter: typeof fieldValue === 'number' && typeof value ===
\* 'number'
BothNumbers(fieldValue, value) ==
  fieldValue.type = "number" /\ value.type = "number"

\* createComparisonFilter
CreateComparisonFilter(field, operator, value, record) ==
  LET fieldValue == Field(record, field) IN
  IF operator = <<"=", "=">> THEN StrictEquals(fieldValue, value)
  ELSE IF operator = <<"!", "=">> THEN ~ StrictEquals(fieldValue, value)
  ELSE IF operator = <<">">>
  THEN BothNumbers(fieldValue, value) /\ fieldValue.num > value.num
  ELSE IF operator = <<"<">>
  THEN BothNumbers(fieldValue, value) /\ fieldValue.num < value.num
  ELSE IF operator = <<">", "=">>
  THEN BothNumbers(fieldValue, value) /\ fieldValue.num >= value.num
  ELSE IF operator = <<"<", "=">>
  THEN BothNumbers(fieldValue, value) /\ fieldValue.num <= value.num
  ELSE FALSE

\* the filter function parseCondition returns, applied to a record
RECURSIVE Matches(_, _)
Matches(node, record) ==
  IF node.kind = "and"
  THEN \A i \in DOMAIN node.parts : Matches(node.parts[i], record)
  ELSE IF node.kind = "or"
  THEN \E i \in DOMAIN node.parts : Matches(node.parts[i], record)
  ELSE IF node.kind = "contains"
  THEN /\ Field(record, node.field).type = "array"
       /\ \E i \in DOMAIN Field(record, node.field).items :
            Field(record, node.field).items[i] = node.value.str
  ELSE IF node.kind = "comparison"
  THEN CreateComparisonFilter(node.field, node.operator, node.value, record)
  ELSE IF node.kind = "exists"
  THEN Field(record, node.field).type \notin {"undefined", "null"}
  ELSE IF node.kind = "notExists"
  THEN Field(record, node.field).type \in {"undefined", "null"}
  ELSE FALSE

\* /^select\((.*)\)$/
SELECT == <<"s", "e", "l", "e", "c", "t", "(">>

\* parseFilter; a node of kind "all" is the filter that matches everything
ParseFilter(expression) ==
  LET trimmed == Trim(expression) IN
  IF trimmed = <<>> THEN Node("all", <<>>, <<>>, <<>>, Undefined)
  ELSE IF StartsWithAt(trimmed, 1, SELECT) /\ trimmed[Len(trimmed)] = ")"
  THEN ParseCondition(SubSeq(trimmed, Len(SELECT) + 1, Len(trimmed) - 1))
  ELSE ParseCondition(trimmed)

\* filterRecords, after its parseFilter: records.filter(filter)
ApplyFilter(records, filter) ==
  SelectSeq(records, LAMBDA r : filter.kind = "all" \/ Matches(filter, r))

\* filterRecords
FilterRecords(records, expression) ==
  ApplyFilter(records, ParseFilter(expression))

\* ------------------------------------------------------------- lib/records
\* a record of the sort's input: _id, _created and the user field n
SortRecord(id, created, n) == [id |-> id, created |-> created, n |-> n]

\* record[field] of such a record
Get(record, field) ==
  IF field = "_created" THEN record.created
  ELSE IF field = "n" THEN record.n
  ELSE IF field = "_id" THEN Str(<<record.id>>)
  ELSE Undefined

\* normalizeSortField, for an input without blanks around it; "" is null
NormalizeSortField(input) ==
  IF input = "" THEN ""
  ELSE IF input = "created" THEN "_created"
  ELSE IF input = "updated" THEN "_updated"
  ELSE IF input = "deleted" THEN "_deleted"
  ELSE IF input = "id" THEN "_id"
  ELSE input

\* normalizeSortOrder, of an option given trimmed and in lower case: no
\* option is asc, and what is neither asc nor desc throws
NormalizeSortOrder(input) ==
  IF input = "" THEN [ok |-> TRUE, order |-> "asc"]
  ELSE IF input \in {"asc", "desc"} THEN [ok |-> TRUE, order |-> input]
  ELSE [ok |-> FALSE, order |-> ""]

\* String(n) for a number
RECURSIVE DigitsOf(_)
DigitsOf(n) ==
  IF n < Len(Digits) THEN <<Digits[n + 1]>>
  ELSE DigitsOf(n \div Len(Digits)) \o <<Digits[(n % Len(Digits)) + 1]>>

\* String(value)
StringOf(value) ==
  IF value.type = "number" THEN DigitsOf(value.num)
  ELSE IF value.type = "boolean"
  THEN (IF value.num = 1 THEN <<"t", "r", "u", "e">>
        ELSE <<"f", "a", "l", "s", "e">>)
  ELSE value.str

\* s.localeCompare(t): digits sort before letters
RECURSIVE LocaleCompare(_, _)
LocaleCompare(s, t) ==
  LET collation ==
        Digits \o <<"a", "A", "b", "B", "c", "C", "d", "D", "e", "f", "g", "h", "i",
                    "j", "k", "l", "m", "n", "o", "p", "q", "r", "s", "t",
                    "u", "v", "w", "x", "y", "z">>
      Rank(c) == CHOOSE i \in DOMAIN collation : collation[i] = c
  IN
  IF s = <<>> /\ t = <<>> THEN 0
  ELSE IF s = <<>> THEN -1
  ELSE IF t = <<>> THEN 1
  ELSE IF Rank(Head(s)) < Rank(Head(t)) THEN -1
  ELSE IF Rank(Head(s)) > Rank(Head(t)) THEN 1
  ELSE LocaleCompare(Tail(s), Tail(t))

\* Date.parse: a timestamp is written as the digits of its time; BadTs is NaN
DateParse(s) == IF IsNumber(s) THEN NumberOf(s) ELSE BadTs

\* compareValues
CompareValues(a, b, field) ==
  LET Missing(value) == value.type \in {"undefined", "null"} IN
  IF Missing(a) THEN (IF Missing(b) THEN 0 ELSE 1)
  ELSE IF Missing(b) THEN -1
  ELSE IF /\ field \in {"_created", "_updated", "_deleted"}
          /\ DateParse(StringOf(a)) # BadTs
          /\ DateParse(StringOf(b)) # BadTs
  THEN DateParse(StringOf(a)) - DateParse(StringOf(b))
  ELSE IF a.type = "number" /\ b.type = "number" THEN a.num - b.num
  ELSE IF a.type = "boolean" /\ b.type = "boolean"
  THEN (IF a.num = b.num THEN 0 ELSE IF a.num = 1 THEN 1 ELSE -1)
  ELSE LocaleCompare(StringOf(a), StringOf(b))

\* sortRecords: the function given to sort, on the records at i and at j
Comparator(records, field, order, i, j) ==
  LET dir == IF order = "desc" THEN -1 ELSE 1
      cmp == CompareValues(Get(records[i], field), Get(records[j], field),
                           field)
  IN IF cmp # 0 THEN cmp * dir ELSE i - j

\* Array.prototype.sort: the orders it may return.  When some order agrees
\* with the comparison function on every pair, it returns such an order;
\* when the function is not consistent, the order is the implementation's
\* choice.
SortOrders(records, field, order) ==
  LET n == Len(records)
      orders ==
        { f \in [1..n -> 1..n] : \A i, j \in 1..n : f[i] = f[j] => i = j }
      sorted ==
        { f \in orders :
            \A i, j \in 1..n :
              i < j => Comparator(records, field, order, f[i], f[j]) <= 0 }
  IN IF sorted # {} THEN sorted ELSE orders

\* sortRecords, for one of those orders
SortRecords(records, f) == [i \in DOMAIN records |-> records[f[i]]]

\* parseLimit: Number(input) of an option that was given; NaN and what is
\* no non-negative integer throw
ParseLimit(input) ==
  IF input = Undefined THEN [ok |-> TRUE, limit |-> Undefined]
  ELSE IF input.str = <<>> THEN [ok |-> TRUE, limit |-> Num(0)]
  ELSE IF IsNumber(input.str)
  THEN [ok |-> TRUE, limit |-> Num(NumberOf(input.str))]
  ELSE [ok |-> FALSE, limit |-> Undefined]

\* an applyLimit that takes a limit of 0 for no limit
ApplyLimit_ZeroUnbounded(records, limit) ==
  IF limit = Undefined \/ limit.num = 0 THEN records
  ELSE SubSeq(records, 1, Min(limit.num, Len(records)))

\* applyLimit: records.slice(0, limit)
ApplyLimit(records, limit) ==
  IF limit = Undefined THEN records
  ELSE SubSeq(records, 1, Min(limit.num, Len(records)))

\* filterRecordsByTime on the records of the logs; a withinMs of NoTs is an
\* option that was not given
FilterRecordsByTime_Strict(records, field, withinMs, nowMs) ==
  LET value(r) == IF field = "_created" THEN r.created
                  ELSE IF field = "_updated" THEN r.updated
                  ELSE r.deleted
  IN IF withinMs = NoTs THEN records
     ELSE SelectSeq(records, LAMBDA r : /\ value(r) \notin {NoTs, BadTs}
                                       /\ value(r) > nowMs - withinMs)

FilterRecordsByTime(records, field, withinMs, nowMs) ==
  LET value(r) == IF field = "_created" THEN r.created
                  ELSE IF field = "_updated" THEN r.updated
                  ELSE r.deleted
  IN IF withinMs = NoTs THEN records
     ELSE SelectSeq(records, LAMBDA r : /\ value(r) \notin {NoTs, BadTs}
                                       /\ value(r) >= nowMs - withinMs)

\* ---------------------------------------------------------- commands/list
\* a list that loads the deleted log before the active log
ListInvoke_DeletedFirst(p, c) ==
  /\ UNCHANGED nextId
  /\ Invoke(p, [c EXCEPT !.op = "list"],
            (IF c.includeDeleted THEN LoadOps(DatabasePaths.deletedFile)
             ELSE <<>>) \o
            LoadOps(DatabasePaths.dataFile))

\* listCommand: the options are read, then loadRecords
ListInvoke(p, c) ==
  /\ UNCHANGED nextId
  /\ Invoke(p, [c EXCEPT !.op = "list"],
            LoadOps(DatabasePaths.dataFile) \o
            (IF c.includeDeleted THEN LoadOps(DatabasePaths.deletedFile)
             ELSE <<>>))

\* listCommand: what it does with the lists it loaded, up to the merge
\* filter is parseFilter of the --filter option, which both calls of
\* filterRecords compute
ListRecords(allActiveRecords, loaded, c, filter, nowMs) ==
  LET Filter(rs) ==
        IF c.filter = <<>> THEN rs ELSE ApplyFilter(rs, filter)
      Window(rs) ==
        FilterRecordsByTime(
          FilterRecordsByTime(rs, "_created", c.within.created, nowMs),
          "_updated", c.within.updated, nowMs)
      legacyDeleted == SelectSeq(allActiveRecords, LAMBDA r : r.deleted # NoTs)
      records ==
        Window(Filter(SelectSeq(allActiveRecords,
                                LAMBDA r : r.deleted = NoTs)))
      uniqueDeleted == SelectSeq(loaded, LAMBDA r : ~ HasId(records, r.id))
      legacyUnique ==
        SelectSeq(legacyDeleted, LAMBDA r : ~ HasId(records, r.id))
      deleted ==
        FilterRecordsByTime(Window(Filter(uniqueDeleted \o legacyUnique)),
                            "_deleted", c.within.deleted, nowMs)
  IN IF c.includeDeleted THEN records \o deleted ELSE records

\* listCommand, after its loads: filter, time windows, merge, sort, limit.
\* records is the list before applyLimit, out the list that is returned.
ListBody(p) ==
  /\ LoadsDone(p, "list")
  /\ pc' = [pc EXCEPT ![p] = "done"]
  /\ LET c == cmd[p]
         sortField == NormalizeSortField(c.sort)
         sortOrder == NormalizeSortOrder(c.order)
         limit == ParseLimit(c.limit)
         filter == ParseFilter(c.filter)
         merged == ListRecords(currentRecords[p], deletedRecords[p], c,
                               filter, clock)
     IN
     IF c.filter # <<>> /\ Throws(filter)
     THEN /\ outcome' = [outcome EXCEPT ![p] = "INVALID_FILTER"]
          /\ UNCHANGED cmd
     ELSE IF ~ sortOrder.ok \/ ~ limit.ok
     THEN /\ outcome' = [outcome EXCEPT ![p] = "INVALID_INPUT"]
          /\ UNCHANGED cmd
     ELSE /\ outcome' = [outcome EXCEPT ![p] = "ok"]
          /\ \E f \in IF sortField = "" THEN {[i \in DOMAIN merged |-> i]}
                       ELSE SortOrders(merged, sortField, sortOrder.order) :
               cmd' = [cmd EXCEPT
                         ![p].now = clock,
                         ![p].records = SortRecords(merged, f),
                         ![p].out = ApplyLimit(SortRecords(merged, f),
                                               limit.limit)]
  /\ UNCHANGED <<clock, lockFile, lockTs, reclaimed, files, plan,
                 currentRecords, deletedRecords, start, waitedMs, wake,
                 nextId, opsRun, histVars>>

\* ----------------------------------------------------------- commands/get
\* getCommand: the ids are read, then loadRecords and loadDeletedRecords
GetCommand(p, ids) ==
  /\ UNCHANGED nextId
  /\ Invoke(p, [NoCmd EXCEPT !.op = "get", !.ids = ids],
            LoadOps(DatabasePaths.dataFile) \o
            LoadOps(DatabasePaths.deletedFile))

\* new Map() filled by set(record._id, record) in the order of the list:
\* the last record of an id is the one get(id) returns
MapGet(records, id) ==
  records[CHOOSE i \in DOMAIN records :
            /\ records[i].id = id
            /\ \A j \in DOMAIN records : records[j].id = id => j <= i]

\* getCommand, after its loads: the active version of each id, else its
\* deleted version, else the id is missing.  deletedById holds the records
\* of the deleted log and, for the ids it lacks, the first record of the
\* active log that carries _deleted.
GetBody(p) ==
  /\ LoadsDone(p, "get")
  /\ pc' = [pc EXCEPT ![p] = "done"]
  /\ LET idList == cmd[p].ids
         allActiveRecords == currentRecords[p]
         legacyDeleted ==
           SelectSeq(allActiveRecords, LAMBDA r : r.deleted # NoTs)
         records == SelectSeq(allActiveRecords, LAMBDA r : r.deleted = NoTs)
         legacyOnly ==
           SelectSeq(legacyDeleted,
                     LAMBDA r : ~ HasId(deletedRecords[p], r.id))
         deletedById ==
           SelectSeq([i \in DOMAIN legacyOnly |-> <<i, legacyOnly[i]>>],
                     LAMBDA e : \A j \in 1..(e[1] - 1) :
                                  legacyOnly[j].id # e[2].id) \o
           [i \in DOMAIN deletedRecords[p] |-> <<i, deletedRecords[p][i]>>]
         deletedList == [i \in DOMAIN deletedById |-> deletedById[i][2]]
         missingIds == { i \in DOMAIN idList :
                           /\ ~ HasId(records, idList[i])
                           /\ ~ HasId(deletedList, idList[i]) }
         results == [i \in DOMAIN idList |->
                       IF HasId(records, idList[i])
                       THEN MapGet(records, idList[i])
                       ELSE MapGet(deletedList, idList[i])]
     IN
     IF idList = <<>>
     THEN /\ outcome' = [outcome EXCEPT ![p] = "INVALID_INPUT"]
          /\ UNCHANGED cmd
     ELSE IF missingIds # {}
     THEN /\ outcome' = [outcome EXCEPT ![p] = "RECORDS_NOT_FOUND"]
          /\ UNCHANGED cmd
     ELSE /\ outcome' = [outcome EXCEPT ![p] = "ok"]
          /\ cmd' = [cmd EXCEPT ![p].now = clock,
                                ![p].records = results,
                                ![p].out = results]
  /\ UNCHANGED <<clock, lockFile, lockTs, reclaimed, files, plan,
                 currentRecords, deletedRecords, start, waitedMs, wake,
                 nextId, opsRun, histVars>>

\* --------------------------------------------------------- commands/count
\* countCommand: the options are read, then loadRecords
CountCommand(p, c) ==
  /\ UNCHANGED nextId
  /\ Invoke(p, [c EXCEPT !.op = "count"],
            LoadOps(DatabasePaths.dataFile) \o
            (IF c.includeDeleted THEN LoadOps(DatabasePaths.deletedFile)
             ELSE <<>>))

\* countCommand: the records it counts before the filter is applied
CountRecords(allActiveRecords, loaded, c) ==
  LET legacyDeleted == SelectSeq(allActiveRecords, LAMBDA r : r.deleted # NoTs)
      records == SelectSeq(allActiveRecords, LAMBDA r : r.deleted = NoTs)
      uniqueDeleted == SelectSeq(loaded, LAMBDA r : ~ HasId(records, r.id))
      legacyUnique ==
        SelectSeq(legacyDeleted, LAMBDA r : ~ HasId(records, r.id))
  IN IF c.includeDeleted THEN records \o uniqueDeleted \o legacyUnique
     ELSE records

\* countCommand, after its loads: merge, then filter; out holds the records
\* whose number it returns
CountBody(p) ==
  /\ LoadsDone(p, "count")
  /\ pc' = [pc EXCEPT ![p] = "done"]
  /\ LET c == cmd[p]
         filter == ParseFilter(c.filter)
         merged == CountRecords(currentRecords[p], deletedRecords[p], c)
     IN
     IF c.filter # <<>> /\ Throws(filter)
     THEN /\ outcome' = [outcome EXCEPT ![p] = "INVALID_FILTER"]
          /\ UNCHANGED cmd
     ELSE /\ outcome' = [outcome EXCEPT ![p] = "ok"]
          /\ cmd' = [cmd EXCEPT
                       ![p].now = clock,
                       ![p].out = IF c.filter = <<>> THEN merged
                                  ELSE ApplyFilter(merged, filter)]
  /\ UNCHANGED <<clock, lockFile, lockTs, reclaimed, files, plan,
                 currentRecords, deletedRecords, start, waitedMs, wake,
                 nextId, opsRun, histVars>>

\* ------------------------------------- the record store on its own: SpecStore
\* One writeFull of either log, by a process that may be killed, next to
\* loads of either log.  Both logs start holding the same list.
StoreInit ==
  /\ InitLocals
  /\ clock = 0
  /\ lockFile = NoLock
  /\ nextId = 0
  /\ opsRun = 0
  /\ \E orig \in RecLists :
       /\ origRecords = orig
       /\ \E f \in (IF orig = <<>> THEN {NoFile, File(<<>>)}
                     ELSE {File(Serialize(orig))}) :
            files = [path \in Paths |->
                       IF path \in {DatabasePaths.dataFile,
                                    DatabasePaths.deletedFile}
                       THEN f ELSE NoFile]
       /\ lastWritten = [path \in {DatabasePaths.dataFile,
                                    DatabasePaths.deletedFile} |-> orig]

StoreNext ==
  \E p \in Procs :
    \/ \E path \in {DatabasePaths.dataFile, DatabasePaths.deletedFile} :
         \E records \in RecLists : WriteFull(p, path, records)
    \/ \E path \in {DatabasePaths.dataFile, DatabasePaths.deletedFile} :
         Load(p, path)
    \/ ExistsSync(p)
    \/ ReadFileSync(p)
    \/ LoadReturn(p)
    \/ WriteFileSyncOpen(p)
    \/ \E rest \in BOOLEAN : WriteFileSync(p, rest)
    \/ WriteFileSyncFails(p)
    \/ RenameSync(p)
    \/ KillWriter(p)
    \/ FnReturn(p)

SpecStore == StoreInit /\ [][StoreNext]_vars

\* ------------------------------------------------------- record store claims
Writers == {p \in Procs : cmd[p].op = "writeFull"}
Loaders == {p \in Procs : cmd[p].op = "load"}

\* the rename of a writeFull has not happened / has happened
NotRenamed(p) == plan[p] # <<>> \/ outcome[p] = "OPERATION_FAILED"
Renamed(p) == plan[p] = <<>> /\ outcome[p] # "OPERATION_FAILED"

\* what a load returned
Loaded(p) ==
  IF cmd[p].path = DatabasePaths.dataFile THEN currentRecords[p]
  ELSE deletedRecords[p]

\* C3: at every point of writeFull before the rename, also when the writer
\* was killed there or writeFileSync failed, the target log is exactly the
\* file it was when writeFull was called; from the rename on, the target
\* log holds exactly the serialization of the new records.
C3_AtomicRewrite ==
  \A p \in Writers :
    /\ NotRenamed(p) => files[cmd[p].path] = before[p]
    /\ Renamed(p) => files[cmd[p].path] = File(Serialize(cmd[p].records))

\* a writer killed with its temp file partially written, the new list
\* differing from the old one
C3_Witness ==
  \E p \in Writers :
    /\ pc[p] = "killed"
    /\ plan[p] # <<>>
    /\ Head(plan[p]).op = "write"
    /\ Len(files[Head(plan[p]).temp].content) > 0
    /\ files[Head(plan[p]).temp].content # Serialize(cmd[p].records)
    /\ before[p] # File(Serialize(cmd[p].records))

\* C4: a load that ran while a writeFull of the same log was under way did
\* not fail, and returned the complete list the log held before the write
\* or the complete list being written.
C4_ReaderSeesOldOrNew ==
  \A p \in Loaders :
    pc[p] = "done" =>
      /\ outcome[p] = "ok"
      /\ Loaded(p) \in {origRecords}
                        \cup {cmd[w].records :
                                w \in {q \in Writers : cmd[q].path = cmd[p].path}}

\* a load that returned the new list while the old one was different, and
\* another that returned the old list although the writer had started
C4_Witness ==
  \E p \in Loaders : \E w \in Writers :
    /\ pc[p] = "done"
    /\ cmd[w].path = cmd[p].path
    /\ cmd[w].records # origRecords
    /\ Loaded(p) = origRecords
    /\ Len(origRecords) = MaxRecs
    /\ pc[w] = "writing"
    /\ plan[w] # <<>>
    /\ Head(plan[w]).op = "rename"

\* C9: a loadActive that read the active log after writeFull(records) had
\* renamed its temp file returns exactly records, in the same order.
C9_RoundTrip ==
  \A p \in Loaders : \A w \in Writers :
    ( /\ pc[p] = "done"
      /\ cmd[p].path = DatabasePaths.dataFile
      /\ cmd[w].path = DatabasePaths.dataFile
      /\ Renamed(w)
      /\ expected[p] = cmd[w].records )
    => ( outcome[p] = "ok" /\ currentRecords[p] = cmd[w].records )

\* a round trip of two different records, one of them with a newline in
\* its title, through a log that held something else
C9_Witness ==
  \E p \in Loaders : \E w \in Writers :
    /\ pc[p] = "done"
    /\ pc[w] = "done"
    /\ cmd[p].path = DatabasePaths.dataFile
    /\ cmd[w].path = DatabasePaths.dataFile
    /\ Len(cmd[w].records) = 2
    /\ cmd[w].records[1] # cmd[w].records[2]
    /\ cmd[w].records[1].title = <<NL>>
    /\ origRecords # cmd[w].records
    /\ currentRecords[p] = cmd[w].records


\* ------------------------------- commands run one after another: Spec
\* An initialized database: initializeDatabase has created both logs empty.
\* A command is invoked when no other is running, and time passes between
\* commands.
Initialized ==
  /\ files = [path \in Paths |->
                IF path \in {DatabasePaths.dataFile, DatabasePaths.deletedFile}
                THEN File(<<>>) ELSE NoFile]
  /\ nextId = 0
  /\ opsRun = 0
  /\ origRecords = <<>>
  /\ lastWritten = [path \in {DatabasePaths.dataFile,
                               DatabasePaths.deletedFile} |-> <<>>]

\* A database in use: record A was added, record B was added and then soft
\* deleted, all at time 0.
InUse ==
  LET active == <<SdbRecord("A", 0, 0, NoTs, <<NL>>)>>
      deleted == <<SdbRecord("B", 0, 0, 0, <<NL>>)>>
  IN
  /\ files = [path \in Paths |->
                IF path = DatabasePaths.dataFile
                THEN File(Serialize(active))
                ELSE IF path = DatabasePaths.deletedFile
                THEN File(Serialize(deleted)) ELSE NoFile]
  /\ nextId = 2
  /\ opsRun = 0
  /\ origRecords = <<>>
  /\ lastWritten = [path \in {DatabasePaths.dataFile,
                               DatabasePaths.deletedFile} |->
                      IF path = DatabasePaths.dataFile THEN active
                      ELSE deleted]

Init ==
  /\ InitLocals
  /\ Initialized \/ InUse
  /\ clock = 0
  /\ lockFile = NoLock

Quiescent == \A q \in Procs : pc[q] = "idle"

Invocation(p) ==
  \/ AddCommand(p, <<NL>>)
  \/ \E ids \in IdLists : UpdateCommand(p, ids, <<BS, "n">>)
  \/ \E fieldName \in FieldNames :
       FieldArgsRejected(p, "update", fieldName)
  \/ \E ids \in IdLists : \E hard \in BOOLEAN : DeleteCommand(p, ids, hard)
  \/ \E all \in BOOLEAN : \E age \in 0..1 : \E dryRun \in BOOLEAN :
       GcCommand(p, all, age, dryRun)

\* the process that runs the commands; which one it is makes no difference
Shell == CHOOSE p \in Procs : TRUE

\* between two commands time passes by one unit at most
TickBetween == clock <= opsRun /\ Tick

Between == Quiescent /\ (TickBetween \/ Invocation(Shell))

CommandStep(p) ==
  \/ AcqExists(p)
  \/ AcqCreate(p)
  \/ AcqWrite(p)
  \/ ExistsSync(p)
  \/ ReadFileSync(p)
  \/ AddBody(p)
  \/ UpdateBody(p)
  \/ DeleteBody(p)
  \/ GcBody(p)
  \/ AppendFileSync(p)
  \/ WriteFileSyncOpen(p)
  \/ WriteFileSync(p, TRUE)
  \/ RenameSync(p)
  \/ FnReturn(p)
  \/ RelExists(p)
  \/ RelUnlink(p)
  \/ Finish(p)

Next == Between \/ \E p \in Procs : CommandStep(p)

Spec == Init /\ [][Next]_vars

\* ------------------------------- gc of a deleted log of any kind: SpecGc
\* One gcCommand on a database whose deleted log holds records deleted at
\* any time, records without _deleted and records whose _deleted cannot be
\* read.
DeletedLogs ==
  LET deletedAts == {NoTs, BadTs} \cup (MaxTime - 2)..MaxTime
  IN UNION { { [i \in 1..n |-> SdbRecord(Ulid(i - 1), 0, 0, d[i], <<NL>>)] :
                 d \in [1..n -> deletedAts] } : n \in 0..(MaxRecs + 1) }

GcInit ==
  /\ InitLocals
  /\ lockFile = NoLock
  /\ clock \in {1, MaxTime}
  /\ nextId = 0
  /\ opsRun = 0
  /\ origRecords = <<>>
  /\ \E log \in DeletedLogs :
       /\ files = [path \in Paths |->
                     IF path = DatabasePaths.dataFile THEN File(<<>>)
                     ELSE IF path = DatabasePaths.deletedFile
                     THEN File(IF log = <<>> THEN <<>> ELSE Serialize(log))
                     ELSE NoFile]
       /\ lastWritten = [path \in {DatabasePaths.dataFile,
                                    DatabasePaths.deletedFile} |->
                           IF path = DatabasePaths.dataFile THEN <<>>
                           ELSE log]

GcStep(p) ==
  \/ AcqExists(p)
  \/ AcqCreate(p)
  \/ AcqWrite(p)
  \/ ExistsSync(p)
  \/ ReadFileSync(p)
  \/ GcBody(p)
  \/ WriteFileSyncOpen(p)
  \/ WriteFileSync(p, TRUE)
  \/ RenameSync(p)
  \/ FnReturn(p)
  \/ RelExists(p)
  \/ RelUnlink(p)

GcNext ==
  \/ /\ Quiescent
     /\ \E all \in BOOLEAN : \E age \in 0..1 : \E dryRun \in BOOLEAN :
          GcCommand(Shell, all, age, dryRun)
  \/ GcStep(Shell)

SpecGc == GcInit /\ [][GcNext]_vars

\* ------------------------------------ list with a filter: SpecFilter
\* listCommand has loaded its records and applies its --filter.
ListFilter(p) ==
  /\ pc[p] = "listing"
  /\ cmd[p].op = "list"
  /\ pc' = [pc EXCEPT ![p] = "done"]
  /\ IF Throws(ParseFilter(cmd[p].filter))
     THEN /\ outcome' = [outcome EXCEPT ![p] = "INVALID_FILTER"]
          /\ UNCHANGED cmd
     ELSE /\ outcome' = [outcome EXCEPT ![p] = "ok"]
          /\ cmd' = [cmd EXCEPT ![p].out =
                       FilterRecords(cmd[p].records, cmd[p].filter)]
  /\ UNCHANGED <<clock, lockFile, lockTs, reclaimed, files, plan,
                 currentRecords, deletedRecords, start, waitedMs, wake,
                 nextId, opsRun, histVars>>

\* a list command about to work on the records it loaded
Listing(c) ==
  /\ pc = [p \in Procs |-> IF p = Shell THEN "listing" ELSE "idle"]
  /\ cmd = [p \in Procs |-> IF p = Shell THEN c ELSE NoCmd]
  /\ plan = [p \in Procs |-> <<>>]
  /\ currentRecords = [p \in Procs |-> <<>>]
  /\ deletedRecords = [p \in Procs |-> <<>>]
  /\ outcome = [p \in Procs |-> "none"]
  /\ start = [p \in Procs |-> 0]
  /\ waitedMs = [p \in Procs |-> 0]
  /\ wake = [p \in Procs |-> 0]
  /\ lockTs = [p \in Procs |-> NoTs]
  /\ reclaimed = [p \in Procs |-> FALSE]
  /\ expected = [p \in Procs |-> <<>>]
  /\ before = [p \in Procs |-> NoFile]
  /\ snapshot = [p \in Procs |-> Logs(<<>>, <<>>)]
  /\ Initialized
  /\ clock = 0
  /\ lockFile = NoLock

\* the filters tried
Exists(f) == <<".", f>>
Comparison(f, operator, literal) ==
  <<".", f, " ">> \o operator \o <<" ">> \o literal
GE == <<">", "=">>
LE == <<"<", "=">>
OrderingOperators == {<<">">>, <<"<">>, GE, LE}
NumberLiteral(n) == <<Digits[n + 1]>>
NumberLiterals == { NumberLiteral(n) : n \in 0..MaxNum }
OtherLiterals ==
  { <<QT, "1", QT>>, <<"t", "r", "u", "e">>, <<"n", "u", "l", "l">>,
    <<"x">> }
BooleanFields == {"a", "b", "c"}

\* the filters tried, each on lists whose records differ in the fields it
\* reads: which of a, b, c a record has, or what n is, or an array in t
FilterInputs ==
  LET booleanFilters ==
        { Exists(x) : x \in BooleanFields }
        \cup { Exists(x) \o AND \o Exists(y) : x, y \in BooleanFields }
        \cup { Exists(x) \o OR \o Exists(y) : x, y \in BooleanFields }
        \cup { Exists("a") \o j \o Exists("b") \o k \o Exists("c") :
                 j, k \in {AND, OR} }
      comparisonFilters ==
        { Comparison("n", o, l) :
            o \in OrderingOperators \cup {<<"=", "=">>, <<"!", "=">>},
            l \in NumberLiterals \cup OtherLiterals }
      otherFilters ==
        { <<>>, <<"n">>, NOT \o <<" ">> \o Exists("a"),
          SELECT \o Exists("a") \o <<")">>,
          Exists("t") \o <<" ", "|", " ">> \o CONTAINS
            \o <<QT, "x", QT, ")">> }
      booleanValues == {Undefined, Str(<<"x">>)}
      nValues ==
        { Undefined, Null, Str(<<"1">>), Bool(TRUE), Arr(<<>>) }
        \cup { Num(n) : n \in 0..MaxNum }
      fieldSets ==
        { [a |-> a, b |-> b, c |-> c, n |-> Undefined, t |-> Undefined] :
            a \in booleanValues, b \in booleanValues, c \in booleanValues }
      nSets ==
        { [a |-> Undefined, b |-> Undefined, c |-> Undefined, n |-> n,
           t |-> Undefined] : n \in nValues }
      tSets ==
        { [a |-> Undefined, b |-> Undefined, c |-> Undefined,
           n |-> Undefined, t |-> Arr(<<(<<"x">>)>>)] }
      ListsOf(sets) ==
        UNION { { [i \in 1..n |->
                     FilterRecord(Ulid(i - 1), u[i].a, u[i].b, u[i].c,
                                  u[i].n, u[i].t)] :
                    u \in [1..n -> sets] } : n \in 0..MaxRecs }
  IN (ListsOf(fieldSets) \X booleanFilters)
     \cup (ListsOf(nSets) \X comparisonFilters)
     \cup ((ListsOf(tSets) \cup ListsOf(fieldSets)) \X otherFilters)

FilterInit ==
  \E input \in FilterInputs :
    Listing([NoCmd EXCEPT !.op = "list", !.records = input[1],
                          !.filter = input[2]])

FilterNext == ListFilter(Shell)

SpecFilter == FilterInit /\ [][FilterNext]_vars

\* ---------------------------------------- list with --sort: SpecSort
\* listCommand has loaded its records and sorts them.
ListSort(p) ==
  /\ pc[p] = "listing"
  /\ cmd[p].op = "list"
  /\ NormalizeSortField(cmd[p].sort) # ""
  /\ pc' = [pc EXCEPT ![p] = "done"]
  /\ outcome' = [outcome EXCEPT ![p] = "ok"]
  /\ \E f \in SortOrders(cmd[p].records, NormalizeSortField(cmd[p].sort),
                         cmd[p].order) :
       cmd' = [cmd EXCEPT ![p].out = SortRecords(cmd[p].records, f)]
  /\ UNCHANGED <<clock, lockFile, lockTs, reclaimed, files, plan,
                 currentRecords, deletedRecords, start, waitedMs, wake,
                 nextId, opsRun, histVars>>

\* the lists tried: in n, numbers and a string that sorts between them as
\* text; in _created, times and a string that is no time and sorts between
\* them as text
SortInputs ==
  LET sortedNs == {Undefined, Num(2), Num(10), Str(<<"1", "a">>)}
      sortedCreateds ==
        {Undefined, Str(<<"9">>), Str(<<"1", "0">>), Str(<<"1", "a">>)}
  IN UNION {
       ({ [i \in 1..k |-> SortRecord(Digits[i], Str(<<"0">>), v[i])] :
            v \in [1..k -> sortedNs] } \X {"n"})
       \cup
       ({ [i \in 1..k |-> SortRecord(Digits[i], v[i], Undefined)] :
            v \in [1..k -> sortedCreateds] } \X {"created"}) :
       k \in 0..(MaxRecs + 2) }

SortInit ==
  \E input \in SortInputs : \E order \in {"asc", "desc"} :
    Listing([NoCmd EXCEPT !.op = "list", !.records = input[1],
                          !.sort = input[2], !.order = order])

SortNext == ListSort(Shell)

SpecSort == SortInit /\ [][SortNext]_vars

\* ------------------------------- a lock nobody owns: SpecOwnerless
\* The folder holds a lock file that no running process wrote: text that is
\* no JSON, JSON without a timestamp, JSON whose timestamp is no date, or
\* the lock of a writer that was killed.  It was written at time 0.
OwnerlessLocks ==
  { [exists |-> TRUE, creator |-> "", kind |-> k, pid |-> "",
     timestamp |-> t] :
      k \in {"json"}, t \in {NoTs, BadTs, 0} }
  \cup { [exists |-> TRUE, creator |-> "", kind |-> "text", pid |-> "",
          timestamp |-> NoTs] }

\* one process calls withLock, for the first time after the staleness
\* timeout has passed since the file was written
OwnerlessInit ==
  /\ InitLocals
  /\ EmptyStore
  /\ clock = LOCK_TIMEOUT_MS + 1
  /\ lockFile \in OwnerlessLocks

OwnerlessNext == Tick \/ LockStep(Shell)

SpecOwnerless == OwnerlessInit /\ [][OwnerlessNext]_vars

\* ------------------------------- list with time windows: SpecWindow
\* listCommand has loaded a set of records and applies the time windows.
\* The set is taken once as the active set, with the windows of created and
\* updated, and once as the deleted set, with those of created, updated and
\* deleted; the active records stand before the deleted ones.
ListWindow(p) ==
  /\ pc[p] = "listing"
  /\ cmd[p].op = "list"
  /\ pc' = [pc EXCEPT ![p] = "done"]
  /\ outcome' = [outcome EXCEPT ![p] = "ok"]
  /\ LET c == cmd[p]
         Window(rs) ==
           FilterRecordsByTime(
             FilterRecordsByTime(rs, "_created", c.within.created, c.now),
             "_updated", c.within.updated, c.now)
     IN cmd' = [cmd EXCEPT
                  ![p].out =
                    Window(c.records)
                    \o FilterRecordsByTime(Window(c.records), "_deleted",
                                           c.within.deleted, c.now)]
  /\ UNCHANGED <<clock, lockFile, lockTs, reclaimed, files, plan,
                 currentRecords, deletedRecords, start, waitedMs, wake,
                 nextId, opsRun, histVars>>

\* the sets tried: in one of the three timestamps of a record a time, no
\* value or a string that is no time, in the two others the time 0; one
\* window, of one or two units, at a now that leaves 0 outside of it
WindowInputs ==
  LET values == {NoTs, BadTs} \cup 0..MaxTime
      stamps ==
        { <<v, 0, 0>> : v \in values } \cup { <<0, v, 0>> : v \in values }
        \cup { <<0, 0, v>> : v \in values }
      windows ==
        { [created |-> c, updated |-> u, deleted |-> d] :
            c \in {NoTs, 1, 2}, u \in {NoTs, 1, 2}, d \in {NoTs, 1, 2} }
      lists ==
        UNION { { [i \in 1..k |->
                     SdbRecord(Ulid(i - 1), t[i][1], t[i][2], t[i][3],
                               <<>>)] :
                    t \in [1..k -> stamps] } : k \in 0..MaxRecs }
  IN lists
     \X { w \in windows :
            Cardinality({ f \in DOMAIN w : w[f] # NoTs }) = 1 }
     \X {3, MaxTime}

WindowInit ==
  \E input \in WindowInputs :
    Listing([NoCmd EXCEPT !.op = "list", !.records = input[1],
                          !.within = input[2], !.now = input[3]])

WindowNext == ListWindow(Shell)

SpecWindow == WindowInit /\ [][WindowNext]_vars

\* ------------------------------------------ list with its options: SpecList
\* One listCommand on a database in which records were added, updated and
\* soft deleted up to time 2.  The active log may hold a record soft deleted
\* by an old version (C, with _deleted), and a soft delete that was
\* interrupted between its append and its rewrite has left a record in both
\* logs (A, or C).
ListInit ==
  LET title == <<NL>>
      active == <<SdbRecord("C", 0, 1, 1, title),
                  SdbRecord("A", 0, 0, NoTs, title)>>
      deleted == <<SdbRecord("D", 1, 2, BadTs, title),
                   SdbRecord("C", 0, 2, 2, title),
                   SdbRecord("A", 0, 2, 2, title)>>
      Sub(log, keep) == SelectSeq(log, LAMBDA r : r.id \in keep)
  IN
  /\ InitLocals
  /\ lockFile = NoLock
  /\ clock = 2
  /\ nextId = 0
  /\ opsRun = 0
  /\ origRecords = <<>>
  /\ \E keepActive \in SUBSET {"A", "C"} :
       \E keepDeleted \in SUBSET {"A", "C", "D"} :
         /\ files = [path \in Paths |->
                       IF path = DatabasePaths.dataFile
                       THEN File(Serialize(Sub(active, keepActive)))
                       ELSE IF path = DatabasePaths.deletedFile
                       THEN File(Serialize(Sub(deleted, keepDeleted)))
                       ELSE NoFile]
         /\ lastWritten = [path \in {DatabasePaths.dataFile,
                                      DatabasePaths.deletedFile} |->
                             IF path = DatabasePaths.dataFile
                             THEN Sub(active, keepActive)
                             ELSE Sub(deleted, keepDeleted)]

\* the filter ._id != "A"
NotA == <<".", "_", "i", "d", " ", "!", "=", " ", QT, "A", QT>>

\* the options tried: one time window at most, of one unit
ListOptions ==
  LET windows ==
        { [created |-> c, updated |-> u, deleted |-> d] :
            c \in {NoTs, 1}, u \in {NoTs, 1}, d \in {NoTs, 1} }
      limits ==
        {Undefined, Str(<<"x">>)}
        \cup { Str(<<Digits[n + 1]>>) : n \in 0..MaxRecs }
  IN { [NoCmd EXCEPT !.includeDeleted = i, !.filter = f, !.within = w,
                     !.sort = o[1], !.order = o[2], !.limit = l] :
         i \in BOOLEAN, f \in {<<>>, NotA},
         w \in { w \in windows :
                   Cardinality({ k \in DOMAIN w : w[k] # NoTs }) <= 1 },
         o \in {<<"", "asc">>, <<"id", "asc">>, <<"id", "desc">>,
                <<"id", "up">>},
         l \in limits }

ListNext ==
  \/ Quiescent /\ \E c \in ListOptions : ListInvoke(Shell, c)
  \/ ExistsSync(Shell)
  \/ ReadFileSync(Shell)
  \/ ListBody(Shell)

SpecList == ListInit /\ [][ListNext]_vars

\* --------------------------------------- count against list: SpecCount
\* the filter that keeps the records that carry a _deleted
IsDeleted == <<".">> \o DeletedField

\* count is run with every filter and with and without --include-deleted
\* on the logs of SpecList, where an id may stand in both logs
CountNext ==
  \/ Quiescent /\ \E i \in BOOLEAN : \E f \in {<<>>, NotA, IsDeleted} :
       CountCommand(Shell, [NoCmd EXCEPT !.includeDeleted = i, !.filter = f])
  \/ ExistsSync(Shell)
  \/ ReadFileSync(Shell)
  \/ CountBody(Shell)

SpecCount == ListInit /\ [][CountNext]_vars

\* ------------------------------- field arguments and the schema: SpecFields
\* Commands run one after another on a folder that either holds no database
\* yet or holds one in use: record A was added and record B was added and
\* soft deleted at time 0, under a schema that initCommand accepted.  Every
\* schema tried requires title, the one user field the records carry.
SchemaFiles ==
  { Schema(type,
           [key \in {TitleField} \cup extra |->
              IF key = TitleField THEN default ELSE Str(<<"x">>)],
           <<TitleField>> \o required) :
      type \in {"object", "array"},
      default \in {Undefined, Str(<<BS, "n">>)},
      extra \in {{}, {<<"_", "x">>}},
      required \in {<<>>, <<CreatedField>>} }

\* the field arguments tried: none, --title, --_id, and --title twice
FieldArgs ==
  LET arg(name, value) == [name |-> name, value |-> Str(value)] IN
  { <<>>,
    <<arg(TitleField, <<NL>>)>>,
    <<arg(IdField, <<"A">>)>>,
    <<arg(TitleField, <<NL>>), arg(TitleField, <<QT>>)>> }

FieldsInit ==
  LET active == <<SdbRecord("A", 0, 0, NoTs, <<NL>>)>>
      deleted == <<SdbRecord("B", 0, 0, 0, <<NL>>)>>
  IN
  /\ InitLocals
  /\ lockFile = NoLock
  /\ clock = 1
  /\ opsRun = 0
  /\ origRecords = <<>>
  /\ \/ /\ files = [path \in Paths \cup {DatabasePaths.schemaFile} |-> NoFile]
        /\ nextId = 0
        /\ lastWritten = [path \in {DatabasePaths.dataFile,
                                     DatabasePaths.deletedFile} |-> <<>>]
     \/ /\ \E schema \in { s \in SchemaFiles : ValidateSchemaFile(s) } :
             files = [path \in Paths \cup {DatabasePaths.schemaFile} |->
                        IF path = DatabasePaths.schemaFile THEN File(schema)
                        ELSE IF path = DatabasePaths.dataFile
                        THEN File(Serialize(active))
                        ELSE IF path = DatabasePaths.deletedFile
                        THEN File(Serialize(deleted)) ELSE NoFile]
        /\ nextId = 2
        /\ lastWritten = [path \in {DatabasePaths.dataFile,
                                     DatabasePaths.deletedFile} |->
                            IF path = DatabasePaths.dataFile THEN active
                            ELSE deleted]

FieldsInvocation(p) ==
  \/ \E schema \in SchemaFiles : \E force \in BOOLEAN :
       InitCommand(p, schema, force)
  \/ \E args \in FieldArgs : AddFields(p, args)
  \/ \E ids \in IdLists : \E args \in FieldArgs : UpdateFields(p, ids, args)
  \/ ValidateCommand(p)

FieldsStep(p) ==
  \/ AcqExists(p)
  \/ AcqCreate(p)
  \/ AcqWrite(p)
  \/ ExistsSync(p)
  \/ ReadFileSync(p)
  \/ AddBody(p)
  \/ UpdateBody(p)
  \/ ValidateBody(p)
  \/ WriteFileSyncOpen(p)
  \/ WriteFileSync(p, TRUE)
  \/ RenameSync(p)
  \/ FnReturn(p)
  \/ RelExists(p)
  \/ RelUnlink(p)
  \/ Finish(p)

FieldsNext ==
  \/ Quiescent /\ (TickBetween \/ FieldsInvocation(Shell))
  \/ FieldsStep(Shell)

SpecFields == FieldsInit /\ [][FieldsNext]_vars

\* ------------------------------------------ commands side by side: SpecAdds
\* Each process runs one add on an initialized database with no lock left
\* behind; the steps of the processes interleave freely and time passes.
AddsInit ==
  /\ InitLocals
  /\ Initialized
  /\ clock = 0
  /\ lockFile = NoLock

AddsStep(p) ==
  \/ AddCommand(p, <<NL>>)
  \/ AcqExists(p)
  \/ AcqRead(p)
  \/ AcqUnlinkStale(p)
  \/ AcqCatch(p)
  \/ AcqWake(p)
  \/ AcqCreate(p)
  \/ AcqWrite(p)
  \/ ExistsSync(p)
  \/ ReadFileSync(p)
  \/ AddBody(p)
  \/ WriteFileSyncOpen(p)
  \/ WriteFileSync(p, TRUE)
  \/ RenameSync(p)
  \/ FnReturn(p)
  \/ RelExists(p)
  \/ RelUnlink(p)

AddsNext == Tick \/ \E p \in Procs : AddsStep(p)

SpecAdds == AddsInit /\ [][AddsNext]_vars

\* ------------------------------ soft deletes that may be killed: SpecDelete
\* Soft deletes run one after another on a database in use.  The process may
\* be killed at any point of its loads and writes; the lock it leaves is
\* reclaimed by the next command once it is stale.
DeleteInit ==
  /\ InitLocals
  /\ InUse
  /\ clock = 0
  /\ lockFile = NoLock

DeleteStep(p) ==
  \/ AcqExists(p)
  \/ AcqRead(p)
  \/ AcqUnlinkStale(p)
  \/ AcqWake(p)
  \/ AcqCreate(p)
  \/ AcqWrite(p)
  \/ ExistsSync(p)
  \/ ReadFileSync(p)
  \/ DeleteBody(p)
  \/ AppendFileSync(p)
  \/ \E most \in BOOLEAN : AppendFileSyncKilled(p, most)
  \/ WriteFileSyncOpen(p)
  \/ WriteFileSync(p, TRUE)
  \/ RenameSync(p)
  \/ Kill(p)
  \/ FnReturn(p)
  \/ RelExists(p)
  \/ RelUnlink(p)
  \/ Finish(p)

DeleteNext ==
  \/ Tick
  \/ Quiescent /\ \E ids \in IdLists : DeleteCommand(Shell, ids, FALSE)
  \/ DeleteStep(Shell)

SpecDelete == DeleteInit /\ [][DeleteNext]_vars

\* --------------------- commands given several ids at once: SpecMulti
\* Updates, soft deletes and hard deletes run one after another on a
\* database in use: record A is active, record B was soft deleted, and the
\* active log may hold a record C that carries _deleted, as older versions
\* wrote it.  The schema on disk requires title, or title and a field that
\* no record has (a stricter schema was put in place with init --force).
OtherField == <<"x">>

MultiSchemas ==
  { Schema("object", [key \in {TitleField} |-> Undefined],
           <<TitleField>> \o required) :
      required \in {<<>>, <<OtherField>>} }

MultiInit ==
  LET deleted == <<SdbRecord("B", 0, 0, 0, <<NL>>)>> IN
  /\ InitLocals
  /\ lockFile = NoLock
  /\ clock = 1
  /\ opsRun = 0
  /\ nextId = 2
  /\ origRecords = <<>>
  /\ \E schema \in MultiSchemas :
     \E active \in { <<SdbRecord("A", 0, 0, NoTs, <<NL>>)>>,
                     <<SdbRecord("C", 0, 0, 0, <<NL>>),
                       SdbRecord("A", 0, 0, NoTs, <<NL>>)>> } :
       /\ files = [path \in Paths \cup {DatabasePaths.schemaFile} |->
                     IF path = DatabasePaths.schemaFile THEN File(schema)
                     ELSE IF path = DatabasePaths.dataFile
                     THEN File(Serialize(active))
                     ELSE IF path = DatabasePaths.deletedFile
                     THEN File(Serialize(deleted)) ELSE NoFile]
       /\ lastWritten = [path \in {DatabasePaths.dataFile,
                                    DatabasePaths.deletedFile} |->
                           IF path = DatabasePaths.dataFile THEN active
                           ELSE deleted]

MultiInvocation(p) ==
  \/ \E ids \in IdLists : \E args \in FieldArgs : UpdateFields(p, ids, args)
  \/ \E ids \in IdLists : \E hard \in BOOLEAN : DeleteCommand(p, ids, hard)

MultiStep(p) ==
  \/ AcqExists(p)
  \/ AcqCreate(p)
  \/ AcqWrite(p)
  \/ ExistsSync(p)
  \/ ReadFileSync(p)
  \/ UpdateBody(p)
  \/ DeleteBody(p)
  \/ AppendFileSync(p)
  \/ WriteFileSyncOpen(p)
  \/ WriteFileSync(p, TRUE)
  \/ RenameSync(p)
  \/ FnReturn(p)
  \/ RelExists(p)
  \/ RelUnlink(p)
  \/ Finish(p)

MultiNext ==
  \/ Quiescent /\ (TickBetween \/ MultiInvocation(Shell))
  \/ MultiStep(Shell)

SpecMulti == MultiInit /\ [][MultiNext]_vars

\* ------------------------------- loads of logs of any content: SpecParse
\* Both logs hold the same text: up to MaxLines lines, each the line of a
\* record, a line cut short, a lone brace, an empty line or a blank one,
\* with or without a newline at the end.  Each process loads either log.
MaxLines == MaxRecs + 1

LogLines ==
  LET a == Stringify(SdbRecord("A", 0, 0, NoTs, <<NL>>))
      b == Stringify(SdbRecord("B", 0, 1, 1, <<BS, "n">>))
  IN { a, b, SubSeq(b, 1, Len(b) - 1), <<"{">>, <<>>, <<" ">> }

LogContents ==
  UNION { { Join(lines, <<NL>>) \o end :
              lines \in [1..n -> LogLines], end \in {<<>>, <<NL>>} } :
          n \in 1..MaxLines }

ParseInit ==
  /\ InitLocals
  /\ lockFile = NoLock
  /\ clock = 0
  /\ nextId = 0
  /\ opsRun = 0
  /\ origRecords = <<>>
  /\ lastWritten = [path \in {DatabasePaths.dataFile,
                               DatabasePaths.deletedFile} |-> <<>>]
  /\ \E content \in LogContents :
       files = [path \in Paths |->
                  IF path \in {DatabasePaths.dataFile,
                               DatabasePaths.deletedFile}
                  THEN File(content) ELSE NoFile]

ParseNext ==
  \E p \in Procs :
    \/ \E path \in {DatabasePaths.dataFile, DatabasePaths.deletedFile} :
         Load(p, path)
    \/ ExistsSync(p)
    \/ ReadFileSync(p)
    \/ LoadReturn(p)

SpecParse == ParseInit /\ [][ParseNext]_vars

\* ------------------------------- readers next to a soft delete: SpecReaders
\* One process runs soft deletes under the lock while the other runs get and
\* list --include-deleted, which take no lock; every file operation of
\* either is a step of its own.  The reader runs one command.
Writer == Shell

Reader == CHOOSE p \in Procs : p # Writer

ReadersInit == DeleteInit

WriterStep(p) ==
  \/ \E ids \in IdLists : DeleteCommand(p, ids, FALSE)
  \/ AcqExists(p)
  \/ AcqCreate(p)
  \/ AcqWrite(p)
  \/ DeleteBody(p)
  \/ AppendFileSync(p)
  \/ WriteFileSyncOpen(p)
  \/ WriteFileSync(p, TRUE)
  \/ RenameSync(p)
  \/ FnReturn(p)
  \/ RelExists(p)
  \/ RelUnlink(p)

ReaderStep(p) ==
  \/ \E ids \in IdLists : GetCommand(p, ids)
  \/ ListInvoke(p, [NoCmd EXCEPT !.includeDeleted = TRUE])
  \/ GetBody(p)
  \/ ListBody(p)

ReadersNext ==
  \/ Quiescent /\ TickBetween
  \/ WriterStep(Writer)
  \/ ReaderStep(Reader)
  \/ \E p \in Procs : ExistsSync(p) \/ ReadFileSync(p)
  \/ Finish(Writer)

SpecReaders == ReadersInit /\ [][ReadersNext]_vars

\* ---------------------- read-only commands next to a writer: SpecReadOnly
\* One process runs soft deletes under the lock while the other runs one
\* list, get, count, schema or validate.
ReadOnlyInit == MultiInit /\ LoadSchema.required = <<TitleField>>

ReadOnlyInvocation(p) ==
  \/ \E i \in BOOLEAN : ListInvoke(p, [NoCmd EXCEPT !.includeDeleted = i])
  \/ \E ids \in IdLists : GetCommand(p, ids)
  \/ \E i \in BOOLEAN : CountCommand(p, [NoCmd EXCEPT !.includeDeleted = i])
  \/ SchemaCommand(p)
  \/ ValidateCommand(p)

ReadOnlyStep(p) ==
  \/ ExistsSync(p)
  \/ ReadFileSync(p)
  \/ ListBody(p)
  \/ GetBody(p)
  \/ CountBody(p)
  \/ ValidateBody(p)

ReadOnlyNext ==
  \/ Quiescent /\ TickBetween
  \/ WriterStep(Writer)
  \/ ExistsSync(Writer)
  \/ ReadFileSync(Writer)
  \/ Finish(Writer)
  \/ ReadOnlyInvocation(Reader)
  \/ ReadOnlyStep(Reader)

SpecReadOnly == ReadOnlyInit /\ [][ReadOnlyNext]_vars

\* ------------------------------------------------- claims about the lock
\* the lock p acquired had outlived the staleness timeout when q acquired
Outlived(p, q) == lockTs[q] - lockTs[p] > LOCK_TIMEOUT_MS

\* C1: mutual exclusion.  Two processes are never both between a successful
\* acquire and its release, unless the lock of the one had grown older than
\* the staleness timeout when the other acquired.
C1_MutualExclusion ==
  \A p \in Procs : \A q \in Procs \ {p} :
    InsideFn(p) /\ InsideFn(q) => Outlived(p, q) \/ Outlived(q, p)

\* C6: stale reclaim.  An acquire that has removed a parseable lock older
\* than the staleness timeout, with no other process acquiring, goes straight
\* back to the top of its loop without waiting, finds the path free, and can
\* only go on to create the lock and return: it neither waits nor fails, and
\* nobody else's lock is in its way.
C6_StaleReclaim ==
  \A p \in Procs :
    reclaimed[p] =>
      /\ pc[p] \notin {"acq_read", "acq_unlink", "acq_catch", "acq_sleep"}
      /\ outcome[p] # "LOCK_FAILED"
      /\ pc[p] \in {"acq_top", "acq_create"} => ~ lockFile.exists
      /\ lockFile.exists => lockFile.creator = p

\* p has reclaimed a stale lock and returned from acquire while the process
\* that wrote the stale lock is still inside its fn
C6_Witness ==
  \E p \in Procs : \E h \in Procs \ {p} :
    /\ reclaimed[p]
    /\ pc[p] = "fn"
    /\ pc[h] = "fn"
    /\ lockTs[p] - lockTs[h] > LOCK_TIMEOUT_MS

\* a lock file is at the path and is not one that reads as older than the
\* staleness timeout
FreshLockPresent ==
  lockFile.exists /\ ~ (lockFile.kind = "json" /\ IsStale(lockFile))

\* C7: bounded wait, the failure half.  Acquire raises the lock-failure
\* error only once the elapsed wait has reached the wait budget and while a
\* fresh lock is still present.
C7_FailsOnlyOnFreshLock ==
  [][\A p \in Procs :
       outcome[p] # "LOCK_FAILED" /\ outcome'[p] = "LOCK_FAILED" =>
         waitedMs[p] >= LOCK_MAX_WAIT_MS /\ FreshLockPresent]_vars

FnOutcomes == {"ok", "THROWN", "REJECTED"}

\* withLock has completed after having acquired the lock
Completed(p) == pc[p] = "done" /\ outcome[p] # "LOCK_FAILED"

Steps(p) == pc'[p] # pc[p]

\* C25: corrupt lock handling.  When acquire is in the catch block for a
\* lock file that is there and cannot be parsed, its next step removes the
\* file and takes it back to the top of the loop: it does not start a wait
\* and it does not fail on the wait budget.
C25_CorruptLockRetry ==
  [][\A p \in Procs :
       ( /\ pc[p] = "acq_catch"
         /\ lockFile.exists
         /\ lockFile.kind # "json"
         /\ Steps(p) )
       => ~ lockFile'.exists /\ pc'[p] = "acq_top"]_vars

\* C26: concurrent reclaim.  The lock file an acquire removes after it has
\* read a stale lock is a parseable lock older than the staleness timeout,
\* never a lock another acquirer has created since.
C26_ReclaimRemovesStaleOnly ==
  [][\A p \in Procs :
       ( /\ pc[p] = "acq_unlink"
         /\ Steps(p)
         /\ lockFile.exists
         /\ ~ lockFile'.exists )
       => lockFile.kind = "json" /\ IsStale(lockFile)]_vars

\* C27: release is owner-safe.  The lock file a release removes is the one
\* the releasing process created.
C27_ReleaseRemovesOwnLock ==
  [][\A p \in Procs :
       pc[p] = "rel_unlink" /\ Steps(p) /\ lockFile.exists
       => lockFile.creator = p]_vars

\* ------------------------------------------------ claims about the commands
Mutating(p) == cmd[p].op \in {"add", "update", "delete", "gc"}

\* the lock file at the path is the one p created
HoldsLock(p) == lockFile.exists /\ lockFile.creator = p

ActiveLog ==
  LoadRecordsFromFile(files[DatabasePaths.dataFile], FALSE).records
DeletedLog ==
  LoadRecordsFromFile(files[DatabasePaths.deletedFile], TRUE).records

Count(records, id) == Cardinality({ i \in DOMAIN records : records[i].id = id })

SoftDeleteDone(p) ==
  /\ pc[p] = "done"
  /\ cmd[p].op = "delete"
  /\ ~ cmd[p].hard
  /\ outcome[p] = "ok"

C5_TwoLogInvariant ==
  (\A q \in Procs : pc[q] \in {"idle", "done"}) =>
    /\ \A id \in UsedIds : Count(ActiveLog, id) + Count(DeletedLog, id) <= 1
    /\ \A p \in Procs :
         SoftDeleteDone(p) =>
           \A i \in DOMAIN cmd[p].ids :
             /\ Count(ActiveLog, cmd[p].ids[i]) = 0
             /\ Count(DeletedLog, cmd[p].ids[i]) = 1

\* a soft delete has completed and left one record in each log
C5_Witness ==
  \E p \in Procs :
    /\ SoftDeleteDone(p)
    /\ Len(ActiveLog) = 1
    /\ Len(DeletedLog) = 1

\* C10: after a successful soft delete of an id, the plain list has no
\* record of that id, and the list with deleted records included has
\* exactly one, which carries a deletion time.
C10_SoftDeleteListing ==
  \A p \in Procs :
    SoftDeleteDone(p) =>
      \A i \in DOMAIN cmd[p].ids :
        LET id == cmd[p].ids[i]
            listed == ListCommand(TRUE)
        IN /\ ~ HasId(ListCommand(FALSE), id)
           /\ Count(listed, id) = 1
           /\ \A j \in DOMAIN listed :
                listed[j].id = id => listed[j].deleted # NoTs

\* a soft delete of two ids has completed
C10_Witness ==
  \E p \in Procs :
    /\ SoftDeleteDone(p)
    /\ Len(cmd[p].ids) = 2
    /\ Len(ListCommand(TRUE)) = 2
    /\ ListCommand(FALSE) = <<>>

HardDeleteDone(p) ==
  /\ pc[p] = "done"
  /\ cmd[p].op = "delete"
  /\ cmd[p].hard
  /\ outcome[p] = "ok"

\* records without those of the ids given, the rest as they were
Without(records, idList) ==
  SelectSeq(records, LAMBDA r : \A i \in DOMAIN idList : r.id # idList[i])

\* C11: after a successful hard delete of a list of ids none of the ids is
\* in the active log or in the deleted log, and each log is the log as it was
\* when the command began with the records of those ids taken out: every
\* other record is there, unchanged, in the same relative order.
C11_HardDelete ==
  \A p \in Procs :
    HardDeleteDone(p) =>
      /\ \A i \in DOMAIN cmd[p].ids :
           /\ Count(ActiveLog, cmd[p].ids[i]) = 0
           /\ Count(DeletedLog, cmd[p].ids[i]) = 0
      /\ ActiveLog = Without(snapshot[p].active, cmd[p].ids)
      /\ DeletedLog = Without(snapshot[p].deleted, cmd[p].ids)

\* a hard delete of one id from each log has completed and left a record
C11_Witness ==
  \E p \in Procs :
    /\ HardDeleteDone(p)
    /\ \E i \in DOMAIN cmd[p].ids : HasId(snapshot[p].active, cmd[p].ids[i])
    /\ \E i \in DOMAIN cmd[p].ids : HasId(snapshot[p].deleted, cmd[p].ids[i])
    /\ Len(ActiveLog) + Len(DeletedLog) > 0

\* the records of both logs
AllRecords ==
  { ActiveLog[i] : i \in DOMAIN ActiveLog } \cup
  { DeletedLog[i] : i \in DOMAIN DeletedLog }

\* p runs a command of one of the kinds given on the record id
Targets(p, ops, id) == cmd[p].op \in ops /\ Includes(cmd[p].ids, id)

UpdateDone(p) ==
  /\ pc[p] = "done"
  /\ cmd[p].op = "update"
  /\ outcome[p] = "ok"

\* the records both logs held when the command of p began
RecordsBefore(p) ==
  { snapshot[p].active[i] : i \in DOMAIN snapshot[p].active } \cup
  { snapshot[p].deleted[i] : i \in DOMAIN snapshot[p].deleted }

\* C12: reserved fields.  When a command has ended, every record id that was
\* in a log when it began and still is carries the createdAt it had; its
\* updatedAt differs only if the command was an update or a soft delete of
\* that id, and is then the time of the command; its deletedAt differs only
\* if the command was a soft delete of that id.  After a successful update
\* each id given carries the time of the update as updatedAt.  A command
\* given a reserved field name ends with invalid-input and leaves both logs
\* as they were.
C12_ReservedFields ==
  \A p \in Procs :
    pc[p] = "done" =>
      /\ \A r \in RecordsBefore(p) : \A r2 \in AllRecords :
           r.id = r2.id =>
             /\ r2.created = r.created
             /\ r2.updated # r.updated =>
                  /\ Targets(p, {"update", "delete"}, r.id)
                  /\ r2.updated = clock
             /\ r2.deleted # r.deleted =>
                  Targets(p, {"delete"}, r.id) /\ ~ cmd[p].hard
      /\ UpdateDone(p) =>
           \A i \in DOMAIN cmd[p].ids :
             \E j \in DOMAIN ActiveLog :
               /\ ActiveLog[j].id = cmd[p].ids[i]
               /\ ActiveLog[j].updated = clock
      /\ Reserved(cmd[p].title) =>
           /\ outcome[p] = "INVALID_INPUT"
           /\ ActiveLog = snapshot[p].active
           /\ DeletedLog = snapshot[p].deleted

\* an update of a record created earlier has succeeded
C12_Witness ==
  \E p \in Procs :
    /\ UpdateDone(p)
    /\ \E j \in DOMAIN ActiveLog :
         /\ ActiveLog[j].id = cmd[p].ids[1]
         /\ ActiveLog[j].created < clock
         /\ ActiveLog[j].updated = clock

\* ----------------------------------------------------- claims about gc
\* the gc of p went through
GcDone(p) == pc[p] = "done" /\ cmd[p].op = "gc" /\ outcome[p] = "ok"

\* _deleted is there and is a time
Parseable(record) == record.deleted >= 0

\* the deleted log as it was when the gc of p began
LogBefore(p) == snapshot[p].deleted

\* the records of a list that gc by age has to leave alone
Survivors(records, cutoff) ==
  SelectSeq(records,
            LAMBDA r : ~ (Parseable(r) /\ r.deleted <= cutoff))

\* C13: after a gc by age, the deleted log holds, in their order, the
\* records it held before except those with a parseable _deleted at or
\* before the cutoff (a dry run leaves the log as it was); removed counts
\* the records that went and skippedInvalid counts the records whose
\* _deleted is missing or cannot be parsed, all of which stay.
C13_GcByAge ==
  \A p \in Procs :
    (GcDone(p) /\ cmd[p].cutoff # NoTs) =>
      LET cutoff == cmd[p].cutoff
          survivors == Survivors(LogBefore(p), cutoff)
      IN /\ DeletedLog = IF cmd[p].dryRun THEN LogBefore(p) ELSE survivors
         /\ cmd[p].stats.total = Len(LogBefore(p))
         /\ cmd[p].stats.removed = Len(LogBefore(p)) - Len(survivors)
         /\ cmd[p].stats.remaining = Len(survivors)
         /\ cmd[p].stats.skippedInvalid =
              Len(SelectSeq(LogBefore(p), LAMBDA r : ~ Parseable(r)))
         /\ \A i \in DOMAIN LogBefore(p) :
              ~ Parseable(LogBefore(p)[i]) =>
                Count(survivors, LogBefore(p)[i].id) = 1

\* a gc by age ran on a log holding a record deleted exactly at the cutoff,
\* a record deleted one unit later and a record without a readable _deleted
C13_Witness ==
  \E p \in Procs :
    /\ GcDone(p)
    /\ cmd[p].cutoff # NoTs
    /\ ~ cmd[p].dryRun
    /\ \E i, j, k \in DOMAIN LogBefore(p) :
         /\ LogBefore(p)[i].deleted = cmd[p].cutoff
         /\ LogBefore(p)[j].deleted = cmd[p].cutoff + 1
         /\ LogBefore(p)[k].deleted = BadTs
    /\ Len(DeletedLog) = 2
    /\ cmd[p].stats.removed = 1
    /\ cmd[p].stats.skippedInvalid = 1

\* C14: after a gc --all the deleted log is empty and removed equals total,
\* whatever _deleted the entries carried (a dry run reports the same stats
\* and leaves the log as it was).
C14_GcAll ==
  \A p \in Procs :
    (GcDone(p) /\ cmd[p].cutoff = NoTs) =>
      /\ DeletedLog = IF cmd[p].dryRun THEN LogBefore(p) ELSE <<>>
      /\ cmd[p].stats.total = Len(LogBefore(p))
      /\ cmd[p].stats.removed = cmd[p].stats.total
      /\ cmd[p].stats.remaining = 0

\* a gc --all emptied a log that held a dated record, a record without
\* _deleted and a record with an unreadable _deleted
C14_Witness ==
  \E p \in Procs :
    /\ GcDone(p)
    /\ cmd[p].cutoff = NoTs
    /\ ~ cmd[p].dryRun
    /\ \E i, j, k \in DOMAIN LogBefore(p) :
         /\ Parseable(LogBefore(p)[i])
         /\ LogBefore(p)[j].deleted = NoTs
         /\ LogBefore(p)[k].deleted = BadTs
    /\ DeletedLog = <<>>
    /\ cmd[p].stats.removed = 3

\* the records of a list whose _deleted is missing or cannot be read
Undated(records) == SelectSeq(records, LAMBDA r : ~ Parseable(r))

\* C15 as stated: after any gc, by age or --all, every record whose _deleted
\* is missing or corrupt is still in the deleted log and skippedInvalid
\* counts them.
C15_InvalidNeverRemoved ==
  \A p \in Procs :
    GcDone(p) =>
      /\ \A i \in DOMAIN LogBefore(p) :
           ~ Parseable(LogBefore(p)[i]) =>
             Count(DeletedLog, LogBefore(p)[i].id) = 1
      /\ cmd[p].stats.skippedInvalid = Len(Undated(LogBefore(p)))

\* C15 amended: a gc by age leaves every record whose _deleted is missing or
\* corrupt in the deleted log and counts it in skippedInvalid; a gc --all
\* that is not a dry run removes it like any other entry and reports a
\* skippedInvalid of 0.
C15_InvalidKeptByAgeOnly ==
  \A p \in Procs :
    GcDone(p) =>
      /\ \A i \in DOMAIN LogBefore(p) :
           ~ Parseable(LogBefore(p)[i]) =>
             Count(DeletedLog, LogBefore(p)[i].id) =
               IF cmd[p].cutoff = NoTs /\ ~ cmd[p].dryRun THEN 0 ELSE 1
      /\ cmd[p].stats.skippedInvalid =
           IF cmd[p].cutoff = NoTs THEN 0 ELSE Len(Undated(LogBefore(p)))

\* a gc --all ran on a log whose records were all undated, and none is left
C15_Witness ==
  \E p \in Procs :
    /\ GcDone(p)
    /\ cmd[p].cutoff = NoTs
    /\ ~ cmd[p].dryRun
    /\ Len(LogBefore(p)) = 2
    /\ Undated(LogBefore(p)) = LogBefore(p)
    /\ DeletedLog = <<>>
    /\ cmd[p].stats.skippedInvalid = 0

\* ------------------------------------------------ claims about filters
\* the list of p applied its filter
Filtered(p) == pc[p] = "done" /\ cmd[p].op = "list" /\ outcome[p] = "ok"

\* the record has the field, and it is not null
Has(record, f) == Field(record, <<f>>).type \notin {"undefined", "null"}

\* C16 as stated: 'and' keeps the records with all terms, 'or' those with at
\* least one, and 'A or B and C' keeps the records with A or (B and C).
C16_OrLowest ==
  \A p \in Procs : \A x, y, z \in BooleanFields :
    /\ (Filtered(p) /\ cmd[p].filter = Exists(x) \o AND \o Exists(y)) =>
         cmd[p].out = SelectSeq(cmd[p].records,
                                LAMBDA r : Has(r, x) /\ Has(r, y))
    /\ (Filtered(p) /\ cmd[p].filter = Exists(x) \o OR \o Exists(y)) =>
         cmd[p].out = SelectSeq(cmd[p].records,
                                LAMBDA r : Has(r, x) \/ Has(r, y))
    /\ (Filtered(p) /\ cmd[p].filter =
           Exists(x) \o OR \o Exists(y) \o AND \o Exists(z)) =>
         cmd[p].out =
           SelectSeq(cmd[p].records,
                     LAMBDA r : Has(r, x) \/ (Has(r, y) /\ Has(r, z)))

\* the field n of the record is a number
NIsNumber(record) == Field(record, <<"n">>).type = "number"

\* C17: for a number k, '.n >= k' keeps exactly the records whose n is a
\* number greater than or equal to k, and '.n <= k' exactly those whose n is
\* a number less than or equal to k.
C17_GeLe ==
  \A p \in Procs : \A k \in 0..MaxNum :
    /\ (cmd[p].op = "list" /\ pc[p] = "done"
          /\ cmd[p].filter = Comparison("n", GE, NumberLiteral(k))) =>
         /\ outcome[p] = "ok"
         /\ cmd[p].out =
              SelectSeq(cmd[p].records,
                        LAMBDA r : NIsNumber(r) /\ r.n.num >= k)
    /\ (cmd[p].op = "list" /\ pc[p] = "done"
          /\ cmd[p].filter = Comparison("n", LE, NumberLiteral(k))) =>
         /\ outcome[p] = "ok"
         /\ cmd[p].out =
              SelectSeq(cmd[p].records,
                        LAMBDA r : NIsNumber(r) /\ r.n.num <= k)

\* C18: a filter that compares n with >, <, >= or <= does not throw, and
\* every record it keeps has a number in n while its literal is a number:
\* a record whose n is missing, null, a string, a boolean or an array is
\* never kept, and no record is kept when the literal is not a number.
C18_OrderingNeedsNumbers ==
  \A p \in Procs :
    \A o \in OrderingOperators : \A l \in NumberLiterals \cup OtherLiterals :
      (cmd[p].op = "list" /\ pc[p] = "done"
        /\ cmd[p].filter = Comparison("n", o, l)) =>
        /\ outcome[p] = "ok"
        /\ \A i \in DOMAIN cmd[p].out :
             NIsNumber(cmd[p].out[i]) /\ l \in NumberLiterals
        /\ \A i \in DOMAIN cmd[p].out :
             \E j \in DOMAIN cmd[p].records :
               cmd[p].records[j] = cmd[p].out[i]

\* '.n > 0' was applied to a record whose n is the boolean true and to a
\* record whose n is 1, and kept only the second
C18_Witness ==
  \E p \in Procs :
    /\ Filtered(p)
    /\ cmd[p].filter = Comparison("n", <<">">>, NumberLiteral(0))
    /\ Len(cmd[p].records) = 2
    /\ cmd[p].records[1].n = Bool(TRUE)
    /\ cmd[p].records[2].n = Num(1)
    /\ cmd[p].out = <<cmd[p].records[2]>>

\* ------------------------------------------------- claims about sorting
\* the list of p sorted its records
Sorted(p) ==
  pc[p] = "done" /\ cmd[p].op = "list" /\ cmd[p].sort # ""
  /\ outcome[p] = "ok"

\* where the record with the id is in the list
Position(records, id) == CHOOSE k \in DOMAIN records : records[k].id = id

\* the two records compare equal on the sort field of p
Tie(p, r1, r2) ==
  LET field == NormalizeSortField(cmd[p].sort)
  IN CompareValues(Get(r1, field), Get(r2, field), field) = 0

\* C19: after a sort, asc or desc, on any field, two records that compare
\* equal on the field are in the output in the order they had in the input.
C19_StableSort ==
  \A p \in Procs :
    Sorted(p) =>
      \A i, j \in DOMAIN cmd[p].records :
        (i < j /\ Tie(p, cmd[p].records[i], cmd[p].records[j])) =>
          Position(cmd[p].out, cmd[p].records[i].id)
            < Position(cmd[p].out, cmd[p].records[j].id)

\* _created is there and is a time
Timed(record) ==
  record.created.type = "string" /\ IsNumber(record.created.str)

TimeOf(record) == NumberOf(record.created.str)

\* C20: after a sort by created, the records with a valid _created are in
\* the order of their times (ascending for asc, descending for desc) and no
\* record whose _created is missing or is no time stands before a record
\* with a valid one.
C20_TimestampSort ==
  \A p \in Procs :
    (Sorted(p) /\ cmd[p].sort = "created") =>
      \A i, j \in DOMAIN cmd[p].out :
        i < j =>
          LET r1 == cmd[p].out[i]
              r2 == cmd[p].out[j]
          IN /\ (Timed(r1) /\ Timed(r2)) =>
                  IF cmd[p].order = "desc" THEN TimeOf(r1) >= TimeOf(r2)
                  ELSE TimeOf(r1) <= TimeOf(r2)
             /\ ~ (~ Timed(r1) /\ Timed(r2))

\* ----------------------------------------------------- claims about list
\* the list of p went through
ListDone(p) == pc[p] = "done" /\ cmd[p].op = "list" /\ outcome[p] = "ok"

\* the record passes the filter and the created and updated windows of p
Passes(p, r) ==
  /\ cmd[p].filter = NotA => r.id # "A"
  /\ cmd[p].within.created # NoTs =>
       r.created >= cmd[p].now - cmd[p].within.created
  /\ cmd[p].within.updated # NoTs =>
       r.updated >= cmd[p].now - cmd[p].within.updated

\* the active records p has to list
ActiveListed(p) ==
  { r \in { currentRecords[p][i] : i \in DOMAIN currentRecords[p] } :
      r.deleted = NoTs /\ Passes(p, r) }

\* the deleted records p has to list: those of the deleted log and the
\* legacy ones of the active log whose id is not listed as active
DeletedListed(p) ==
  { r \in { deletedRecords[p][i] : i \in DOMAIN deletedRecords[p] }
           \cup { currentRecords[p][i] : i \in DOMAIN currentRecords[p] } :
      /\ cmd[p].includeDeleted
      /\ r.deleted # NoTs
      /\ \A a \in ActiveListed(p) : a.id # r.id
      /\ Passes(p, r)
      /\ cmd[p].within.deleted # NoTs =>
           /\ r.deleted # BadTs
           /\ r.deleted >= cmd[p].now - cmd[p].within.deleted }

\* the ids of a list run in the order asked for
InIdOrder(records, order) ==
  \A i, j \in DOMAIN records :
    i < j =>
      LET a == CHOOSE n \in DOMAIN IdSeq : IdSeq[n] = records[i].id
          b == CHOOSE n \in DOMAIN IdSeq : IdSeq[n] = records[j].id
      IN IF order = "desc" THEN a >= b ELSE a <= b

\* C21: limit is applied last.  When a list has gone through, the list it
\* limits holds exactly the records that pass the filter and the time
\* windows, active and deleted ones merged, in the order asked for; what it
\* returns is that whole list when no limit was given, and otherwise its
\* first N records, all of them when it has fewer than N and none when N
\* is 0.
C21_LimitLast ==
  \A p \in Procs :
    ListDone(p) =>
      LET all == cmd[p].records
          out == cmd[p].out
          N == NumberOf(cmd[p].limit.str)
      IN /\ { all[i] : i \in DOMAIN all }
              = ActiveListed(p) \cup DeletedListed(p)
         /\ cmd[p].sort = "id" => InIdOrder(all, cmd[p].order)
         /\ cmd[p].limit = Undefined => out = all
         /\ cmd[p].limit # Undefined =>
              /\ Len(out) = Min(N, Len(all))
              /\ \A i \in DOMAIN out : out[i] = all[i]

\* a list with a filter, deleted records included and sorted by id from the
\* highest has cut its records down to the first, which the loads had not
\* found first
C21_Witness ==
  \E p \in Procs :
    /\ ListDone(p)
    /\ cmd[p].includeDeleted
    /\ cmd[p].filter = NotA
    /\ cmd[p].sort = "id"
    /\ cmd[p].order = "asc"
    /\ cmd[p].limit = Str(<<"1">>)
    /\ Len(cmd[p].records) = 2
    /\ cmd[p].out = <<cmd[p].records[1]>>
    /\ cmd[p].out[1].id = "C"
    /\ deletedRecords[p][1].id = "D"

\* C22: a list with deleted records included returns each record id once
\* at most.
C22_NoDuplicateIds ==
  \A p \in Procs :
    ListDone(p) /\ cmd[p].includeDeleted =>
      \A id \in { IdSeq[n] : n \in DOMAIN IdSeq } :
        Count(cmd[p].records, id) <= 1

\* ------------------------------------- claims about fields and the schema
\* the command of p has ended
Ended(p, ops) == pc[p] = "done" /\ cmd[p].op \in ops

\* a field argument of the command of p names a reserved field
ReservedArg(p) ==
  \E i \in DOMAIN cmd[p].args : Reserved(cmd[p].args[i].name)

\* C23: reserved fields stay away from users and from the validator.  An add
\* or update on a database that is given a field argument starting with '_'
\* ends with invalid-input, with nothing passed to the validator and both
\* logs as they were.  An init given a schema with a property or a required
\* entry starting with '_' never goes through: it ends with invalid-input,
\* or with resource-exists when the database is there and --force is not
\* given, so no schema on disk names a reserved field.  No object that add,
\* update or validate passes to the validator has a key starting with '_'.
C23_ReservedKeptAway ==
  /\ IsDatabaseInitialized => ValidateSchemaFile(LoadSchema)
  /\ \A p \in Procs :
       /\ Ended(p, {"add", "update"}) /\ ReservedArg(p)
          /\ IsDatabaseInitialized =>
            /\ outcome[p] = "INVALID_INPUT"
            /\ cmd[p].validated = <<>>
            /\ ActiveLog = snapshot[p].active
            /\ DeletedLog = snapshot[p].deleted
       /\ Ended(p, {"init"})
          /\ ( \/ \E key \in DOMAIN cmd[p].schema.properties : Reserved(key)
               \/ \E i \in DOMAIN cmd[p].schema.required :
                    Reserved(cmd[p].schema.required[i]) ) =>
            \/ outcome[p] = "INVALID_INPUT"
            \/ outcome[p] = "RESOURCE_EXISTS" /\ IsDatabaseInitialized
       /\ \A i \in DOMAIN cmd[p].validated :
            \A key \in DOMAIN cmd[p].validated[i] : ~ Reserved(key)

\* an update has gone through after it gave the validator the title of the
\* record it wrote, and nothing else of that record
C23_Witness ==
  \E p \in Procs :
    /\ Ended(p, {"update"})
    /\ outcome[p] = "ok"
    /\ Len(cmd[p].validated) = 1
    /\ DOMAIN cmd[p].validated[1] = {TitleField}
    /\ cmd[p].validated[1][TitleField] = Str(cmd[p].title)
    /\ \E j \in DOMAIN ActiveLog :
         /\ ActiveLog[j].id = cmd[p].ids[1]
         /\ ActiveLog[j].title = cmd[p].title
         /\ ActiveLog[j].updated = clock

\* the title the field arguments give: that of the last --title
GivenTitle(args) ==
  LET titles == SelectSeq(args, LAMBDA a : a.name = TitleField)
  IN titles[Len(titles)].value.str

\* what holds when an add has ended
AddEnded(p) ==
  LET r == cmd[p].records[1]
      args == cmd[p].args
  IN
  /\ Ended(p, {"add"}) /\ outcome[p] = "ok" =>
       /\ ActiveLog = Append(snapshot[p].active, r)
       /\ DeletedLog = snapshot[p].deleted
       /\ ~ HasId(snapshot[p].active, r.id)
       /\ ~ HasId(snapshot[p].deleted, r.id)
       /\ r.created = r.updated
       /\ r.deleted = NoTs
       /\ r.title = IF \E i \in DOMAIN args : args[i].name = TitleField
                    THEN GivenTitle(args)
                    ELSE LoadSchema.properties[TitleField].str
  /\ Ended(p, {"add"}) /\ outcome[p] = "SCHEMA_VALIDATION_FAILED" =>
       /\ ActiveLog = snapshot[p].active
       /\ DeletedLog = snapshot[p].deleted
       /\ ~ lockFile.exists

\* C24: an add that goes through leaves the active log as it was with one
\* record appended, whose id no record of either log had, whose createdAt
\* equals its updatedAt and whose title is the one given or, when none was
\* given, the default of the schema; the deleted log is as it was.  An add
\* whose data fails the validation ends in the step that began it: it
\* changes no file and never touches the lock.
C24_AddFrame ==
  /\ [](\A p \in Procs : AddEnded(p))
  /\ [][\A p \in Procs :
          ( cmd'[p].op = "add" /\ outcome'[p] = "SCHEMA_VALIDATION_FAILED"
            /\ pc'[p] # "idle" ) =>
            /\ pc[p] \in {"idle", "done"}
            /\ pc'[p] = "done"
            /\ files' = files
            /\ lockFile' = lockFile]_vars

\* an add without a title has gone through on a database that held an active
\* and a deleted record: the record it appended carries the default
C24_Witness ==
  \E p \in Procs :
    /\ Ended(p, {"add"})
    /\ outcome[p] = "ok"
    /\ cmd[p].args = <<>>
    /\ Len(snapshot[p].active) = 1
    /\ Len(snapshot[p].deleted) = 1
    /\ Len(ActiveLog) = 2
    /\ ActiveLog[2].title = <<BS, "n">>
    /\ ActiveLog[2].created = clock

\* ------------------------------------------- claims about commands at once
\* C28: no lost update.  When every process has run an add that reported
\* success, and each did so within the staleness timeout of its lock, the
\* active log holds the record of each of them.
C28_NoLostUpdate ==
  ( \A p \in Procs :
      /\ Ended(p, {"add"})
      /\ outcome[p] = "ok"
      /\ clock - lockTs[p] <= LOCK_TIMEOUT_MS )
  => \A p \in Procs : HasId(ActiveLog, cmd[p].records[1].id)

\* C29: a soft delete never loses a record.  At every point of a soft
\* delete, and in what it leaves when its process is killed, each record
\* that it targets and that a log held when it began is in the active log
\* or in the deleted log.
C29_SoftDeleteKeepsRecords ==
  \A p \in Procs :
    cmd[p].op = "delete" /\ ~ cmd[p].hard =>
      \A i \in DOMAIN cmd[p].ids :
        ( \/ HasId(snapshot[p].active, cmd[p].ids[i])
          \/ HasId(snapshot[p].deleted, cmd[p].ids[i]) )
        => \/ HasId(ActiveLog, cmd[p].ids[i])
           \/ HasId(DeletedLog, cmd[p].ids[i])


\* ------------------------------------- claims about reads next to a delete
\* the ids of the records of either log when the command of p was invoked
KnownAtStart(p, id) ==
  HasId(snapshot[p].active, id) \/ HasId(snapshot[p].deleted, id)

\* C30: a get or a list --include-deleted that runs next to soft deletes
\* returns every record it asks for that was in one of the two logs when it
\* began, as its active or as its deleted version: a get of ids that were
\* all there ends with ok and returns each of them, and a list returns every
\* record that was there.
C30_ReaderFindsRecord ==
  \A p \in Procs :
    /\ Ended(p, {"get"}) /\ (\A i \in DOMAIN cmd[p].ids :
                               KnownAtStart(p, cmd[p].ids[i])) =>
         /\ outcome[p] = "ok"
         /\ \A i \in DOMAIN cmd[p].ids : HasId(cmd[p].out, cmd[p].ids[i])
    /\ Ended(p, {"list"}) /\ cmd[p].includeDeleted =>
         /\ outcome[p] = "ok"
         /\ \A id \in UsedIds : KnownAtStart(p, id) => HasId(cmd[p].out, id)

\* a get or list that began while a record was active has returned the
\* deleted version of it, written by a soft delete that ran meanwhile
C30_Witness ==
  \E p \in Procs :
    /\ Ended(p, {"get", "list"})
    /\ outcome[p] = "ok"
    /\ \E i \in DOMAIN cmd[p].out :
         /\ HasId(snapshot[p].active, cmd[p].out[i].id)
         /\ cmd[p].out[i].deleted # NoTs


\* ------------------------------------- claims about commands of several ids
\* the errors a command raises for the ids and the data it is given
IdErrors == {"RECORDS_NOT_FOUND", "INVALID_INPUT", "SCHEMA_VALIDATION_FAILED"}

\* an id of the command of p that neither log held when it began
MissingGiven(p) ==
  \E i \in DOMAIN cmd[p].ids : ~ KnownAtStart(p, cmd[p].ids[i])

\* an id of the command of p that was deleted when it began: the deleted log
\* held it, or the active log held it with _deleted, and no record of the
\* active log without _deleted had it
DeletedGiven(p) ==
  \E i \in DOMAIN cmd[p].ids :
    /\ \/ HasId(snapshot[p].deleted, cmd[p].ids[i])
       \/ \E k \in DOMAIN snapshot[p].active :
            /\ snapshot[p].active[k].id = cmd[p].ids[i]
            /\ snapshot[p].active[k].deleted # NoTs
    /\ ~ \E k \in DOMAIN snapshot[p].active :
           /\ snapshot[p].active[k].id = cmd[p].ids[i]
           /\ snapshot[p].active[k].deleted = NoTs

\* an id of the command of p that only the deleted log held when it began
DeletedOnlyGiven(p) ==
  \E i \in DOMAIN cmd[p].ids :
    /\ HasId(snapshot[p].deleted, cmd[p].ids[i])
    /\ ~ HasId(snapshot[p].active, cmd[p].ids[i])

\* an object the update of p gave to the validator lacks a required field
InvalidGiven(p) ==
  \E i \in DOMAIN cmd[p].validated :
    \E k \in DOMAIN cmd[p].schema.required :
      cmd[p].schema.required[k] \notin DOMAIN cmd[p].validated[i]

\* the update of p got as far as withLock
UpdateLocked(p) ==
  Ended(p, {"update"}) /\ outcome[p] \notin {"DATABASE_NOT_INITIALIZED"}
  /\ ~ ReservedArg(p) /\ cmd[p].args # <<>>

Others(records, ids) == SelectSeq(records, LAMBDA r : ~ Includes(ids, r.id))

\* C32: update frame.  After an update that went through, the records of the
\* active log whose id was not given are the ones it held when the update
\* began, those that carry _deleted included, unchanged and in the same
\* order, and the deleted log is as it was.
C32_UpdateFrame ==
  \A p \in Procs :
    Ended(p, {"update"}) /\ outcome[p] = "ok" =>
      /\ Others(ActiveLog, cmd[p].ids) = Others(snapshot[p].active, cmd[p].ids)
      /\ DeletedLog = snapshot[p].deleted

\* ------------------------------------------------ claims about loading a log
\* the lines of a text that are neither blank nor the line of a record
Malformed(lines) ==
  { i \in DOMAIN lines : ~ IsBlank(lines[i]) /\ ~ JsonParse(lines[i]).ok }

\* the records of the lines of a text that parse, in the order of the lines
RecordsOf(lines) ==
  LET good == SelectSeq([i \in DOMAIN lines |-> i],
                        LAMBDA i : ~ IsBlank(lines[i])
                                   /\ JsonParse(lines[i]).ok)
  IN [k \in DOMAIN good |-> JsonParse(lines[good[k]]).rec]

\* what the claim expects of a load of a text: the malformed lines that are
\* errors, which for the deleted log leaves out the final line of a text
\* that does not end with a newline
HardErrors(path, content) ==
  LET lines == Split(content) IN
  Malformed(lines) \
    (IF path = DatabasePaths.deletedFile /\ ~ EndsWith(content, NL)
     THEN {Len(lines)} ELSE {})

\* C33: a load of the deleted log drops a malformed final line that has no
\* newline after it and returns the records of all lines before it; a
\* malformed line anywhere else in the deleted log, and anywhere in the
\* active log, makes the load fail with the 1-based number of the first such
\* line.  A process that loaded a log got exactly that result.
C33_ParseTolerance ==
  \A path \in {DatabasePaths.dataFile, DatabasePaths.deletedFile} :
    LET content == files[path].content
        res == LoadRecordsFromFile(files[path], AllowPartialLastLine(path))
        hard == HardErrors(path, content)
    IN
    /\ files[path].exists =>
         IF hard = {}
         THEN res.ok /\ res.records = RecordsOf(Split(content))
         ELSE /\ ~ res.ok
              /\ res.line \in hard
              /\ \A i \in hard : res.line <= i
    /\ \A p \in Procs :
         Ended(p, {"load"}) /\ cmd[p].path = path =>
           IF res.ok THEN outcome[p] = "ok" /\ Loaded(p) = res.records
           ELSE outcome[p] = "OPERATION_FAILED"

\* a load of the deleted log has returned the record of the first line of a
\* text whose second and final line is malformed and has no newline after it
C33_Witness ==
  \E p \in Procs :
    /\ Ended(p, {"load"})
    /\ cmd[p].path = DatabasePaths.deletedFile
    /\ outcome[p] = "ok"
    /\ Len(Loaded(p)) = 1
    /\ LET lines == Split(files[DatabasePaths.deletedFile].content) IN
       Len(lines) = 2 /\ 2 \in Malformed(lines)

\* ------------------------------------------ claims about the options of list
\* C34: a bad limit or order is rejected before any I/O.  No list whose limit
\* is not a non-negative integer, or whose order is neither asc nor desc,
\* takes a step that looks for or reads a file.
C34_RejectedBeforeIO ==
  [][\A p \in Procs :
       ( cmd[p].op = "list" /\ pc[p] = "loading" /\ plan'[p] # plan[p] ) =>
         /\ ParseLimit(cmd[p].limit).ok
         /\ NormalizeSortOrder(cmd[p].order).ok]_vars

\* ------------------------------------------------- claims about gc --dry-run
\* C35: a gc with --dry-run never writes.  No step of it changes a file, and
\* when it has ended the deleted log is the one it loaded and the counts it
\* reports are those of the gc a real run would do on that log: total the
\* records of the log, removed those the real run would drop, remaining
\* those it would write, skippedInvalid those it would keep for want of a
\* readable deletedAt.
C35_DryRunNeverWrites ==
  /\ [](\A p \in Procs :
          Ended(p, {"gc"}) /\ cmd[p].dryRun /\ outcome[p] = "ok" =>
            LET result == ComputeGc(DeletedLog, cmd[p].cutoff) IN
            /\ DeletedLog = snapshot[p].deleted
            /\ cmd[p].stats = result.stats
            /\ cmd[p].stats.total = Len(DeletedLog)
            /\ cmd[p].stats.remaining = Len(result.remaining)
            /\ cmd[p].stats.removed + cmd[p].stats.remaining
                 = cmd[p].stats.total)
  /\ [][\A p \in Procs :
          cmd[p].op = "gc" /\ cmd[p].dryRun => files' = files]_vars

\* a gc with --dry-run has ended and reports a record as removed that the
\* deleted log still holds
C35_Witness ==
  \E p \in Procs :
    /\ Ended(p, {"gc"})
    /\ cmd[p].dryRun
    /\ outcome[p] = "ok"
    /\ cmd[p].stats.removed > 0
    /\ cmd[p].stats.remaining > 0
    /\ Len(DeletedLog) = cmd[p].stats.total

\* ------------------------------------------ claims about read-only commands
ReadOnlyOps == {"list", "get", "count", "schema", "validate"}

\* the next step of a command that is loading: a test or a read of a log, or
\* the body of the command once both loads are done; none waits on the lock
NextStepFree(p) ==
  IF plan[p] = <<>>
  THEN LoadsDone(p, cmd[p].op)
  ELSE Head(plan[p]).op \in {"exists", "read"}
       /\ Head(plan[p]).path \in Paths

\* C36: read-only commands never touch the lock.  A list, get, count, schema
\* or validate is never at a step of acquireLock or releaseLock, its next
\* step is always a test or a read of a log or the body of the command
\* (whoever holds the lock), and no step of it changes the lock file.
C36_ReadOnlyIgnoresLock ==
  /\ [](\A p \in Procs :
          cmd[p].op \in ReadOnlyOps =>
            /\ pc[p] \in {"loading", "done"}
            /\ pc[p] = "loading" => NextStepFree(p))
  /\ [][\A p \in Procs :
          ( cmd'[p].op \in ReadOnlyOps
            /\ (pc'[p] # pc[p] \/ plan'[p] # plan[p]) ) =>
            lockFile' = lockFile]_vars

\* a read-only command began while the other process held the lock and has
\* ended with ok while that lock is still held
C36_Witness ==
  \E p \in Procs :
    /\ Ended(p, ReadOnlyOps)
    /\ outcome[p] = "ok"
    /\ lockFile.exists
    /\ \E q \in Procs \ {p} :
         /\ pc[q] \in {"loading", "writing"}
         /\ cmd[q].op = "delete"
         /\ start[q] < start[p]

\* ------------------------------------------ claims about time windows
\* the timestamp is inside the window: no window was asked for, or the
\* timestamp is a time and lies at or after now - window
InWindow(ts, withinMs, nowMs) ==
  withinMs = NoTs \/ (ts \notin {NoTs, BadTs} /\ ts >= nowMs - withinMs)

\* the windows of created and updated hold for the record
InWindows(c, r) ==
  /\ InWindow(r.created, c.within.created, c.now)
  /\ InWindow(r.updated, c.within.updated, c.now)

\* the list of p has applied its time windows
Windowed(p) == pc[p] = "done" /\ cmd[p].op = "list" /\ outcome[p] = "ok"

\* C37: time windows.  Of the active set a list keeps exactly the records
\* whose _created and _updated are times at or after now - window, for the
\* windows asked for, whatever the deleted window says; of the deleted set
\* it keeps exactly those for which this also holds of _deleted.  A record
\* whose timestamp is missing or is no time is dropped, one whose timestamp
\* is now - window is kept.
C37_TimeWindows ==
  \A p \in Procs :
    Windowed(p) =>
      LET c == cmd[p] IN
      c.out = SelectSeq(c.records, LAMBDA r : InWindows(c, r))
              \o SelectSeq(c.records,
                           LAMBDA r : /\ InWindows(c, r)
                                      /\ InWindow(r.deleted, c.within.deleted,
                                                  c.now))

\* a deleted window of one unit has kept the whole active set, and of the
\* deleted set the record whose _deleted is the boundary now - window and
\* not the record without a _deleted
C37_Witness ==
  \E p \in Procs :
    /\ Windowed(p)
    /\ cmd[p].within.deleted = 1
    /\ Len(cmd[p].records) = 2
    /\ cmd[p].records[1].deleted = NoTs
    /\ cmd[p].records[2].deleted = cmd[p].now - 1
    /\ cmd[p].out = cmd[p].records \o <<cmd[p].records[2]>>

\* ------------------------------------- claims about a lock nobody owns
\* C38: an ownerless lock file never blocks writers for good.  Whatever the
\* file holds, an acquire that starts more than the staleness timeout after
\* the file was written, with no other process at work, does not end with
\* lock-failure and the file still in the way of the next acquire.
C38_OwnerlessReclaimed ==
  \A p \in Procs :
    ~ ( /\ pc[p] = "done" /\ cmd[p].op = "fn"
        /\ outcome[p] = "LOCK_FAILED"
        /\ lockFile \in OwnerlessLocks )

\* ---------------------------------------- claims about a failed acquire
\* C39: a withLock whose acquire fails touches nothing.  The step at which
\* acquireLock throws lock-failure changes no log and leaves a lock file
\* that another process created as it is, and the call ends without having
\* held the lock, so fn has not run.
C39_FailedAcquireTouchesNothing ==
  /\ [](\A p \in Procs :
          (pc[p] = "done" /\ outcome[p] = "LOCK_FAILED") =>
            lockTs[p] = NoTs)
  /\ [][\A p \in Procs :
          (outcome[p] # "LOCK_FAILED" /\ outcome'[p] = "LOCK_FAILED") =>
            /\ files' = files
            /\ (lockFile.exists /\ lockFile.creator \in Procs \ {p}) =>
                 lockFile' = lockFile]_vars

\* ------------------------------------------------- claims about count
\* the records list returns for the filter and the include-deleted setting
\* of the count of p, with no time window, no sort and no limit
Listed(p) ==
  ListRecords(currentRecords[p], deletedRecords[p],
              [cmd[p] EXCEPT !.within = NoCmd.within],
              ParseFilter(cmd[p].filter), cmd[p].now)

\* C40: count agrees with list.  The number a count returns is the number
\* of records a list returns for the same logs, the same filter and the
\* same include-deleted setting.
C40_CountAgreesWithList ==
  \A p \in Procs :
    (Ended(p, {"count"}) /\ outcome[p] = "ok") =>
      Len(cmd[p].out) = Len(Listed(p))

====
